---- MODULE Spec2Model ----
(***************************************************************************)
(* SHIELD: span reconciliation (feedback_loop.py, pii_detection.py,        *)
(* trainer.py) and deterministic numeric pseudonymization                  *)
(* (FF Parser/data_obfuscator.py).                                         *)
(*                                                                         *)
(* Strings are sequences of one-character strings.  Python's None is the   *)
(* value None below.  An optional result (normalize_entity) is a sequence  *)
(* of length 0 (None) or 1.                                                *)
(***************************************************************************)
EXTENDS Integers, Sequences, FiniteSets, TLC

VARIABLES text, entities, pc, result,
          value, other, preserve_last, env_key, key, pseudo, pseudo_other,
          config, trace, cmds

rvars == <<text, entities, result>>
pvars == <<value, other, preserve_last, env_key, key, pseudo, pseudo_other>>
xvars == <<config, trace>>
vars == <<text, entities, pc, result, value, other, preserve_last, env_key, key, pseudo,
          pseudo_other, config, trace, cmds>>

\* ---------------------------------------------------------------- bounds
\* candidates in one batch
MaxEnts == 3
\* fields in one column configuration
MaxFields == 2
\* candidates handed to one review
MaxReviewEnts == 2
\* characters in a label
MaxLabelLen == 3
\* tuples in one list handed to clean_entity_spans
MaxCleanEnts == 3
\* characters in a value to pseudonymize
MaxValueLen == 3
\* bytes in one HMAC block (32 for SHA-256); kept below MaxValueLen so that
\* the stream of a value needs a second block
DigestLen == 2

\* ---------------------------------------------------------------- strings
None == <<"None">>

Whitespace == {" ", "\n", "\t", "\r"}

Range(s) == {s[i] : i \in 1..Len(s)}

\* str.strip(): drop leading and trailing whitespace
Strip(s) ==
    LET keep == {i \in 1..Len(s) : s[i] \notin Whitespace}
    IN  IF keep = {} THEN <<>>
        ELSE LET lo == CHOOSE i \in keep : \A j \in keep : i <= j
                 hi == CHOOSE i \in keep : \A j \in keep : i >= j
             IN  SubSeq(s, lo, hi)

\* str.upper() on the characters the model uses
UpperChar(c) ==
    CASE c = "a" -> "A"
      [] c = "b" -> "B"
      [] OTHER -> c

\* text[s:e] for 0 <= s; the upper index is clamped to len(text)
Slice(t, s, e) == SubSeq(t, s + 1, IF e > Len(t) THEN Len(t) ELSE e)

\* str.splitlines(): lines end at "\n", "\r" or the pair "\r\n"; a trailing
\* line end opens no extra line
RECURSIVE SplitAcc(_, _, _, _)
SplitAcc(t, i, cur, acc) ==
    IF i > Len(t) THEN (IF cur = <<>> THEN acc ELSE Append(acc, cur))
    ELSE IF t[i] = "\r" /\ i < Len(t) /\ t[i + 1] = "\n"
    THEN SplitAcc(t, i + 2, <<>>, Append(acc, cur))
    ELSE IF t[i] \in {"\n", "\r"} THEN SplitAcc(t, i + 1, <<>>, Append(acc, cur))
    ELSE SplitAcc(t, i + 1, Append(cur, t[i]), acc)

splitlines(t) == SplitAcc(t, 1, <<>>, <<>>)

\* ---------------------------------------------------------------- feedback_loop.py
RECURSIVE LinePosFrom(_, _, _, _, _)
LinePosFrom(lines, i, offset, start, end) ==
    IF i > Len(lines) THEN <<-1, -1, -1>>
    ELSE LET line_len == Len(lines[i]) + 1
         IN  IF offset + line_len > start
             THEN <<i, start - offset, end - offset>>
             ELSE LinePosFrom(lines, i + 1, offset + line_len, start, end)

compute_line_position(t, start, end) == LinePosFrom(splitlines(t), 1, 0, start, end)

ReplaceSep(c) == IF c \in {" ", "-"} THEN "_" ELSE c

sanitize_label(lbl) ==
    LET s == IF lbl = None THEN <<>> ELSE Strip(lbl)
    IN  [i \in 1..Len(s) |-> UpperChar(ReplaceSep(s[i]))]

withinNoUpper(t, s, e) == 0 <= s /\ s < e

within(t, s, e) == 0 <= s /\ s < e /\ e <= Len(t)

normalize_entity_KeepBlank(t, ent) ==
    IF ent.shape = "sel" THEN <<>>
    ELSE IF ent.shape = "range" /\ (ent.start < 0 \/ ent.end < 0) THEN <<>>
    ELSE IF ~within(t, ent.start, ent.end) THEN <<>>
    ELSE LET lp == compute_line_position(t, ent.start, ent.end)
             provided == ent.value
             val == IF provided # None
                      THEN provided ELSE Slice(t, ent.start, ent.end)
         IN  << [start |-> ent.start, end |-> ent.end,
                 label |-> sanitize_label(ent.label),
                 line_number |-> lp[1], left |-> lp[2], right |-> lp[3],
                 value |-> val] >>

\* ent: [shape, value, label, start, end].  shape "record" is a dict or a
\* (value, label, start, end) tuple; "sel" is a 3-tuple (start, end, label);
\* "range" is (value, label, "s-e").
\*   "sel": ent[2] is the label, a str; without "-" in it the first branch is
\*          not taken, the second needs len(ent) >= 4, so the else returns
\*          None (with "-" in it int() raises, caught, None).
\*   "range": "s-e".split("-") of a negative offset has an empty part, int()
\*          raises, caught, None.
normalize_entity(t, ent) ==
    IF ent.shape = "sel" THEN <<>>
    ELSE IF ent.shape = "range" /\ (ent.start < 0 \/ ent.end < 0) THEN <<>>
    ELSE IF ~within(t, ent.start, ent.end) THEN <<>>
    ELSE LET lp == compute_line_position(t, ent.start, ent.end)
             provided == ent.value
             val == IF provided # None /\ Strip(provided) # <<>>
                      THEN provided ELSE Slice(t, ent.start, ent.end)
         IN  << [start |-> ent.start, end |-> ent.end,
                 label |-> sanitize_label(ent.label),
                 line_number |-> lp[1], left |-> lp[2], right |-> lp[3],
                 value |-> val] >>

\* sort key (start, -end)
KeyLT(x, y) == x.start < y.start \/ (x.start = y.start /\ x.end > y.end)

\* sorted() is stable: x goes after every element whose key is <= its own
SortInsert(s, x) ==
    LET k == Cardinality({i \in 1..Len(s) : ~KeyLT(x, s[i])})
    IN  SubSeq(s, 1, k) \o <<x>> \o SubSeq(s, k + 1, Len(s))

RECURSIVE SortFrom(_, _, _)
SortFrom(ents, i, acc) ==
    IF i > Len(ents) THEN acc ELSE SortFrom(ents, i + 1, SortInsert(acc, ents[i]))

SortedByStart_InputOrder(ents) == ents

\* sorted(ents, key=lambda x: (x["start"], -x["end"]))
SortedByStart(ents) == SortFrom(ents, 1, <<>>)

Width(z) == z.end - z.start

SameSpan(e, o) == e.start = o.start /\ e.end = o.end /\ e.label = o.label

ClashAnyLabel(e, o) == ~(e.end <= o.start \/ e.start >= o.end)

Clash(e, o) == ~(e.end <= o.start \/ e.start >= o.end) /\ o.label = e.label

MinByWidth(seq) ==
    seq[CHOOSE i \in 1..Len(seq) :
            /\ \A j \in 1..Len(seq) : Width(seq[j]) >= Width(seq[i])
            /\ \A j \in 1..(i - 1) : Width(seq[j]) > Width(seq[i])]

\* max(seq, key=width): the first element of maximal width
MaxByWidth(seq) ==
    seq[CHOOSE i \in 1..Len(seq) :
            /\ \A j \in 1..Len(seq) : Width(seq[j]) <= Width(seq[i])
            /\ \A j \in 1..(i - 1) : Width(seq[j]) < Width(seq[i])]

DedupeStepKeepClashes(out, e) ==
    IF \E i \in 1..Len(out) : SameSpan(e, out[i]) THEN out
    ELSE LET IsClash(o) == Clash(e, o)
             clashes == SelectSeq(out, IsClash)
         IN  IF clashes # <<>>
             THEN LET widest == MaxByWidth(<<e>> \o clashes)
                  IN  IF widest \in Range(out) THEN out ELSE Append(out, widest)
             ELSE Append(out, e)

DedupeStepDropClashes(out, e) ==
    IF \E i \in 1..Len(out) : SameSpan(e, out[i]) THEN out
    ELSE LET IsClash(o) == Clash(e, o)
             clashes == SelectSeq(out, IsClash)
             NotClash(o) == o \notin Range(clashes)
         IN  IF clashes # <<>>
             THEN SelectSeq(out, NotClash)
             ELSE Append(out, e)

\* one iteration of the loop of dedupe_overlaps
DedupeStep(out, e) ==
    IF \E i \in 1..Len(out) : SameSpan(e, out[i]) THEN out
    ELSE LET IsClash(o) == Clash(e, o)
             clashes == SelectSeq(out, IsClash)
             NotClash(o) == o \notin Range(clashes)
         IN  IF clashes # <<>>
             THEN Append(SelectSeq(out, NotClash), MaxByWidth(<<e>> \o clashes))
             ELSE Append(out, e)

RECURSIVE DedupeFrom(_, _, _)
DedupeFrom(ents, i, out) ==
    IF i > Len(ents) THEN out ELSE DedupeFrom(ents, i + 1, DedupeStep(out, ents[i]))

dedupe_overlaps(ents) == DedupeFrom(SortedByStart(ents), 1, <<>>)

RECURSIVE Flatten(_)
Flatten(ss) == IF ss = <<>> THEN <<>> ELSE Head(ss) \o Flatten(Tail(ss))

\* [x for x in (normalize_entity(text, e) for e in entities) if x]
NormalizeAll(t, ents) == Flatten([i \in 1..Len(ents) |-> normalize_entity(t, ents[i])])

\* collect_user_feedback, lines 78-79
Reconciled(t, ents) == dedupe_overlaps(NormalizeAll(t, ents))

\* ---------------------------------------------------------------- pii_detection.py
\* _sanitize_label: no strip
pii_sanitize_label(lbl) ==
    LET s == IF lbl = None THEN <<>> ELSE lbl
    IN  [i \in 1..Len(s) |-> UpperChar(ReplaceSep(s[i]))]

RemoveIdx(seq, S) ==
    LET F[i \in 0..Len(seq)] ==
            IF i = 0 THEN <<>>
            ELSE IF i \in S THEN F[i - 1] ELSE Append(F[i - 1], seq[i])
    IN  F[Len(seq)]

\* the flatten loop of _merge_and_dedupe over (value, label, start, end)
\* tuples: unpacking a 3-tuple raises and the candidate is skipped
PiiFlattenOne(t, ent) ==
    IF ent.shape # "record" THEN <<>>
    ELSE IF ~within(t, ent.start, ent.end) THEN <<>>
    ELSE << [value |-> ent.value, label |-> pii_sanitize_label(ent.label),
             start |-> ent.start, end |-> ent.end] >>

PiiFlatten(t, ents) == Flatten([i \in 1..Len(ents) |-> PiiFlattenOne(t, ents[i])])

PiiStep(out, c) ==
    IF \E i \in 1..Len(out) : SameSpan(c, out[i]) THEN out
    ELSE LET overlaps == {i \in 1..Len(out) : Clash(c, out[i])}
         IN  IF overlaps # {}
             THEN LET keep_current == \A i \in overlaps : ~(Width(out[i]) >= Width(c))
                      to_remove == {i \in overlaps : ~(Width(out[i]) >= Width(c))}
                      out1 == IF to_remove # {} THEN RemoveIdx(out, to_remove) ELSE out
                  IN  IF keep_current THEN Append(out1, c) ELSE out1
             ELSE Append(out, c)

RECURSIVE PiiFrom(_, _, _)
PiiFrom(ents, i, out) ==
    IF i > Len(ents) THEN out ELSE PiiFrom(ents, i + 1, PiiStep(out, ents[i]))

merge_and_dedupe(t, ents) == PiiFrom(SortedByStart(PiiFlatten(t, ents)), 1, <<>>)

\* ---------------------------------------------------------------- trainer.py
\* _load_feedback_examples, the loop building the triples of one record from
\* its entity dicts; indexing a tuple by "start" raises and it is skipped
TrainerTripleOne(t, ent) ==
    IF ent.shape # "record" THEN <<>>
    ELSE IF ~within(t, ent.start, ent.end) THEN <<>>
    ELSE << [start |-> ent.start, end |-> ent.end,
             label |-> pii_sanitize_label(ent.label)] >>

TrainerTriples(t, ents) == Flatten([i \in 1..Len(ents) |-> TrainerTripleOne(t, ents[i])])

TrainerStep(out, c) ==
    IF \E i \in 1..Len(out) : SameSpan(c, out[i]) THEN out
    ELSE LET keep_idx == {i \in 1..Len(out) : Clash(c, out[i])}
         IN  IF keep_idx # {}
             THEN LET IsClash(o) == Clash(c, o)
                      widest == MaxByWidth(<<c>> \o SelectSeq(out, IsClash))
                      out1 == RemoveIdx(out, keep_idx)
                  IN  IF widest \notin Range(out1) THEN Append(out1, widest) ELSE out1
             ELSE Append(out, c)

RECURSIVE TrainerFrom(_, _, _)
TrainerFrom(ents, i, out) ==
    IF i > Len(ents) THEN out ELSE TrainerFrom(ents, i + 1, TrainerStep(out, ents[i]))

trainer_dedupe_overlaps(ents) == TrainerFrom(SortedByStart(ents), 1, <<>>)

\* ---------------------------------------------------------------- inputs
\* one document of two lines; reconciliation reads only its length
Texts == {<<"a", "\n", "a", "a">>}

Cand(sh, v, l, s, e) == [shape |-> sh, value |-> v, label |-> l, start |-> s, end |-> e]

\* every valid span under label A, two spans under label B
RegularCands(t) ==
    {Cand("record", None, <<"A">>, s, e) : s \in 0..(Len(t) - 1), e \in 1..Len(t)}
    \cup {Cand("record", None, <<"B">>, 1, 2), Cand("record", None, <<"B">>, 0, Len(t))}

Candidates(t) ==
    {c \in RegularCands(t) : c.start < c.end}
    \cup {Cand("record", None, <<"A">>, 2, 1),
          Cand("record", None, <<"A">>, -1, 1),
          Cand("record", None, <<"A">>, Len(t) - 1, Len(t) + 1),
          Cand("sel", None, <<"A">>, 3, 1),
          Cand("range", <<"z">>, <<"a">>, 0, 2),
          Cand("record", <<" ">>, <<"B">>, 1, 2)}

SeqsUpTo(S, n) == UNION {[1..k -> S] : k \in 0..n}

\* ---------------------------------------------------------------- reconciliation
Init ==
    /\ text \in Texts
    /\ entities \in SeqsUpTo(Candidates(text), MaxEnts)
    /\ pc = "input"
    /\ result = <<>>
    /\ value = <<>> /\ other = <<>> /\ preserve_last = 0 /\ env_key = None /\ key = <<>>
    /\ pseudo = None /\ pseudo_other = None
    /\ config = <<>> /\ trace = <<>> /\ cmds = <<>>

\* collect_user_feedback up to the review loop
Reconcile ==
    /\ pc = "input"
    /\ result' = Reconciled(text, entities)
    /\ pc' = "reconciled"
    /\ UNCHANGED <<text, entities, pvars, xvars, cmds>>

\* detect_entities -> _merge_and_dedupe
DetectEntities ==
    /\ pc = "input"
    /\ result' = merge_and_dedupe(text, entities)
    /\ pc' = "merged"
    /\ UNCHANGED <<text, entities, pvars, xvars, cmds>>

\* _load_feedback_examples -> _dedupe_overlaps, one record
LoadFeedbackExamples ==
    /\ pc = "input"
    /\ result' = trainer_dedupe_overlaps(TrainerTriples(text, entities))
    /\ pc' = "trained"
    /\ UNCHANGED <<text, entities, pvars, xvars, cmds>>

Next == Reconcile \/ DetectEntities \/ LoadFeedbackExamples

Spec == Init /\ [][Next]_vars

\* ---------------------------------------------------------------- data_obfuscator.py
AsciiDigits == <<"0", "1", "2", "3", "4", "5", "6", "7", "8", "9">>

\* re \d on str: the decimal digits
IsReDigit(c) == c \in Range(AsciiDigits)

\* str.isdigit(): decimal digits and also digit characters such as the
\* superscript two (the one character written "^2" here), which \d does not
\* match
IsDigit(c) == c \in Range(AsciiDigits) \cup {"^2"}

\* re.sub(r"\D", "", s)
Digits(s) == SelectSeq(s, IsReDigit)

CharCode(c) ==
    CASE c = "1" -> 49 [] c = "7" -> 55 [] c = "-" -> 45 [] c = "^2" -> 178
      [] c = "k" -> 107 [] c = "q" -> 113 [] OTHER -> 0

RECURSIVE Mix(_, _)
Mix(h, str) == IF str = <<>> THEN h ELSE Mix((h * 33 + CharCode(Head(str))) % 65536, Tail(str))

\* HMAC-SHA256: the first four bytes of hmac.new(key, f"{seed}|{i}", sha256).digest()
\* for the keys "k", "q" and the default "CHANGE-ME-IN-ENV": the digit seeds
\* over 1 and 7 of up to four digits with the blocks i = 0, 1, and the
\* nine-digit seeds of the identifiers of a row and of their pseudonyms with
\* the blocks i = 0, 1, 2
HmacSha256 ==
    (<<<<"k">>, <<"1">>, 0>> :> <<156, 82, 114, 99>> @@
     <<<<"k">>, <<"1">>, 1>> :> <<98, 140, 24, 73>> @@
     <<<<"k">>, <<"7">>, 0>> :> <<241, 181, 135, 89>> @@
     <<<<"k">>, <<"7">>, 1>> :> <<70, 24, 169, 150>> @@
     <<<<"k">>, <<"1", "1">>, 0>> :> <<106, 46, 131, 189>> @@
     <<<<"k">>, <<"1", "1">>, 1>> :> <<242, 201, 159, 56>> @@
     <<<<"k">>, <<"1", "7">>, 0>> :> <<59, 42, 48, 247>> @@
     <<<<"k">>, <<"1", "7">>, 1>> :> <<14, 212, 153, 168>> @@
     <<<<"k">>, <<"7", "1">>, 0>> :> <<179, 179, 169, 78>> @@
     <<<<"k">>, <<"7", "1">>, 1>> :> <<167, 107, 123, 112>> @@
     <<<<"k">>, <<"7", "7">>, 0>> :> <<90, 83, 96, 42>> @@
     <<<<"k">>, <<"7", "7">>, 1>> :> <<195, 149, 234, 178>>) @@
    (<<<<"k">>, <<"1", "1", "1">>, 0>> :> <<38, 195, 203, 242>> @@
     <<<<"k">>, <<"1", "1", "1">>, 1>> :> <<72, 29, 94, 59>> @@
     <<<<"k">>, <<"1", "1", "7">>, 0>> :> <<101, 110, 220, 123>> @@
     <<<<"k">>, <<"1", "1", "7">>, 1>> :> <<67, 141, 190, 45>> @@
     <<<<"k">>, <<"1", "7", "1">>, 0>> :> <<80, 111, 179, 46>> @@
     <<<<"k">>, <<"1", "7", "1">>, 1>> :> <<139, 188, 1, 32>> @@
     <<<<"k">>, <<"1", "7", "7">>, 0>> :> <<55, 21, 3, 181>> @@
     <<<<"k">>, <<"1", "7", "7">>, 1>> :> <<103, 255, 246, 28>> @@
     <<<<"k">>, <<"7", "1", "1">>, 0>> :> <<0, 150, 142, 106>> @@
     <<<<"k">>, <<"7", "1", "1">>, 1>> :> <<181, 123, 17, 204>> @@
     <<<<"k">>, <<"7", "1", "7">>, 0>> :> <<81, 145, 5, 186>> @@
     <<<<"k">>, <<"7", "1", "7">>, 1>> :> <<228, 82, 146, 194>>) @@
    (<<<<"k">>, <<"7", "7", "1">>, 0>> :> <<57, 186, 100, 83>> @@
     <<<<"k">>, <<"7", "7", "1">>, 1>> :> <<90, 90, 226, 242>> @@
     <<<<"k">>, <<"7", "7", "7">>, 0>> :> <<91, 78, 35, 186>> @@
     <<<<"k">>, <<"7", "7", "7">>, 1>> :> <<238, 239, 187, 85>> @@
     <<<<"k">>, <<"1", "1", "1", "1">>, 0>> :> <<103, 60, 169, 6>> @@
     <<<<"k">>, <<"1", "1", "1", "1">>, 1>> :> <<80, 136, 84, 113>> @@
     <<<<"k">>, <<"1", "1", "1", "7">>, 0>> :> <<173, 146, 159, 144>> @@
     <<<<"k">>, <<"1", "1", "1", "7">>, 1>> :> <<116, 40, 189, 18>> @@
     <<<<"k">>, <<"1", "1", "7", "1">>, 0>> :> <<168, 21, 236, 27>> @@
     <<<<"k">>, <<"1", "1", "7", "1">>, 1>> :> <<114, 139, 101, 250>> @@
     <<<<"k">>, <<"1", "1", "7", "7">>, 0>> :> <<11, 154, 130, 75>> @@
     <<<<"k">>, <<"1", "1", "7", "7">>, 1>> :> <<28, 156, 249, 141>>) @@
    (<<<<"k">>, <<"1", "7", "1", "1">>, 0>> :> <<204, 56, 106, 249>> @@
     <<<<"k">>, <<"1", "7", "1", "1">>, 1>> :> <<41, 44, 115, 14>> @@
     <<<<"k">>, <<"1", "7", "1", "7">>, 0>> :> <<41, 29, 192, 81>> @@
     <<<<"k">>, <<"1", "7", "1", "7">>, 1>> :> <<6, 101, 201, 247>> @@
     <<<<"k">>, <<"1", "7", "7", "1">>, 0>> :> <<58, 21, 184, 200>> @@
     <<<<"k">>, <<"1", "7", "7", "1">>, 1>> :> <<2, 63, 3, 5>> @@
     <<<<"k">>, <<"1", "7", "7", "7">>, 0>> :> <<227, 42, 108, 85>> @@
     <<<<"k">>, <<"1", "7", "7", "7">>, 1>> :> <<112, 152, 54, 67>> @@
     <<<<"k">>, <<"7", "1", "1", "1">>, 0>> :> <<224, 66, 76, 239>> @@
     <<<<"k">>, <<"7", "1", "1", "1">>, 1>> :> <<90, 86, 206, 251>> @@
     <<<<"k">>, <<"7", "1", "1", "7">>, 0>> :> <<88, 11, 64, 191>> @@
     <<<<"k">>, <<"7", "1", "1", "7">>, 1>> :> <<224, 63, 53, 147>>) @@
    (<<<<"k">>, <<"7", "1", "7", "1">>, 0>> :> <<62, 166, 15, 103>> @@
     <<<<"k">>, <<"7", "1", "7", "1">>, 1>> :> <<8, 155, 250, 56>> @@
     <<<<"k">>, <<"7", "1", "7", "7">>, 0>> :> <<89, 197, 171, 130>> @@
     <<<<"k">>, <<"7", "1", "7", "7">>, 1>> :> <<179, 20, 175, 186>> @@
     <<<<"k">>, <<"7", "7", "1", "1">>, 0>> :> <<6, 179, 143, 60>> @@
     <<<<"k">>, <<"7", "7", "1", "1">>, 1>> :> <<158, 161, 83, 23>> @@
     <<<<"k">>, <<"7", "7", "1", "7">>, 0>> :> <<207, 173, 175, 127>> @@
     <<<<"k">>, <<"7", "7", "1", "7">>, 1>> :> <<204, 175, 39, 181>> @@
     <<<<"k">>, <<"7", "7", "7", "1">>, 0>> :> <<152, 192, 184, 183>> @@
     <<<<"k">>, <<"7", "7", "7", "1">>, 1>> :> <<106, 244, 94, 22>> @@
     <<<<"k">>, <<"7", "7", "7", "7">>, 0>> :> <<151, 37, 254, 188>> @@
     <<<<"k">>, <<"7", "7", "7", "7">>, 1>> :> <<248, 82, 150, 48>>) @@
    (<<<<"q">>, <<"1">>, 0>> :> <<84, 44, 198, 12>> @@
     <<<<"q">>, <<"1">>, 1>> :> <<230, 101, 101, 206>> @@
     <<<<"q">>, <<"7">>, 0>> :> <<35, 103, 213, 179>> @@
     <<<<"q">>, <<"7">>, 1>> :> <<178, 25, 128, 105>> @@
     <<<<"q">>, <<"1", "1">>, 0>> :> <<46, 86, 45, 187>> @@
     <<<<"q">>, <<"1", "1">>, 1>> :> <<236, 112, 38, 210>> @@
     <<<<"q">>, <<"1", "7">>, 0>> :> <<22, 24, 210, 124>> @@
     <<<<"q">>, <<"1", "7">>, 1>> :> <<12, 30, 153, 39>> @@
     <<<<"q">>, <<"7", "1">>, 0>> :> <<87, 200, 254, 101>> @@
     <<<<"q">>, <<"7", "1">>, 1>> :> <<60, 169, 125, 254>> @@
     <<<<"q">>, <<"7", "7">>, 0>> :> <<117, 94, 193, 205>> @@
     <<<<"q">>, <<"7", "7">>, 1>> :> <<172, 19, 113, 61>>) @@
    (<<<<"q">>, <<"1", "1", "1">>, 0>> :> <<18, 181, 46, 62>> @@
     <<<<"q">>, <<"1", "1", "1">>, 1>> :> <<151, 57, 102, 229>> @@
     <<<<"q">>, <<"1", "1", "7">>, 0>> :> <<138, 14, 199, 78>> @@
     <<<<"q">>, <<"1", "1", "7">>, 1>> :> <<35, 211, 80, 117>> @@
     <<<<"q">>, <<"1", "7", "1">>, 0>> :> <<66, 155, 39, 119>> @@
     <<<<"q">>, <<"1", "7", "1">>, 1>> :> <<195, 20, 29, 180>> @@
     <<<<"q">>, <<"1", "7", "7">>, 0>> :> <<121, 39, 179, 126>> @@
     <<<<"q">>, <<"1", "7", "7">>, 1>> :> <<38, 16, 164, 191>> @@
     <<<<"q">>, <<"7", "1", "1">>, 0>> :> <<222, 216, 228, 10>> @@
     <<<<"q">>, <<"7", "1", "1">>, 1>> :> <<204, 100, 160, 115>> @@
     <<<<"q">>, <<"7", "1", "7">>, 0>> :> <<253, 94, 180, 149>> @@
     <<<<"q">>, <<"7", "1", "7">>, 1>> :> <<96, 17, 244, 170>>) @@
    (<<<<"q">>, <<"7", "7", "1">>, 0>> :> <<138, 5, 101, 179>> @@
     <<<<"q">>, <<"7", "7", "1">>, 1>> :> <<231, 173, 101, 169>> @@
     <<<<"q">>, <<"7", "7", "7">>, 0>> :> <<114, 218, 91, 186>> @@
     <<<<"q">>, <<"7", "7", "7">>, 1>> :> <<206, 196, 105, 116>> @@
     <<<<"q">>, <<"1", "1", "1", "1">>, 0>> :> <<169, 227, 150, 82>> @@
     <<<<"q">>, <<"1", "1", "1", "1">>, 1>> :> <<100, 182, 123, 130>> @@
     <<<<"q">>, <<"1", "1", "1", "7">>, 0>> :> <<155, 41, 49, 53>> @@
     <<<<"q">>, <<"1", "1", "1", "7">>, 1>> :> <<65, 245, 78, 223>> @@
     <<<<"q">>, <<"1", "1", "7", "1">>, 0>> :> <<176, 93, 97, 211>> @@
     <<<<"q">>, <<"1", "1", "7", "1">>, 1>> :> <<236, 178, 176, 205>> @@
     <<<<"q">>, <<"1", "1", "7", "7">>, 0>> :> <<10, 68, 84, 230>> @@
     <<<<"q">>, <<"1", "1", "7", "7">>, 1>> :> <<116, 255, 115, 232>>) @@
    (<<<<"q">>, <<"1", "7", "1", "1">>, 0>> :> <<92, 32, 145, 134>> @@
     <<<<"q">>, <<"1", "7", "1", "1">>, 1>> :> <<15, 29, 124, 114>> @@
     <<<<"q">>, <<"1", "7", "1", "7">>, 0>> :> <<222, 124, 247, 205>> @@
     <<<<"q">>, <<"1", "7", "1", "7">>, 1>> :> <<47, 196, 155, 75>> @@
     <<<<"q">>, <<"1", "7", "7", "1">>, 0>> :> <<175, 248, 64, 218>> @@
     <<<<"q">>, <<"1", "7", "7", "1">>, 1>> :> <<94, 187, 68, 133>> @@
     <<<<"q">>, <<"1", "7", "7", "7">>, 0>> :> <<201, 128, 213, 212>> @@
     <<<<"q">>, <<"1", "7", "7", "7">>, 1>> :> <<226, 245, 239, 39>> @@
     <<<<"q">>, <<"7", "1", "1", "1">>, 0>> :> <<206, 195, 218, 29>> @@
     <<<<"q">>, <<"7", "1", "1", "1">>, 1>> :> <<132, 133, 198, 183>> @@
     <<<<"q">>, <<"7", "1", "1", "7">>, 0>> :> <<33, 84, 8, 235>> @@
     <<<<"q">>, <<"7", "1", "1", "7">>, 1>> :> <<6, 210, 140, 87>>) @@
    (<<<<"q">>, <<"7", "1", "7", "1">>, 0>> :> <<105, 229, 242, 90>> @@
     <<<<"q">>, <<"7", "1", "7", "1">>, 1>> :> <<158, 108, 198, 23>> @@
     <<<<"q">>, <<"7", "1", "7", "7">>, 0>> :> <<175, 43, 185, 241>> @@
     <<<<"q">>, <<"7", "1", "7", "7">>, 1>> :> <<52, 188, 189, 107>> @@
     <<<<"q">>, <<"7", "7", "1", "1">>, 0>> :> <<115, 221, 213, 0>> @@
     <<<<"q">>, <<"7", "7", "1", "1">>, 1>> :> <<183, 161, 177, 77>> @@
     <<<<"q">>, <<"7", "7", "1", "7">>, 0>> :> <<117, 65, 8, 147>> @@
     <<<<"q">>, <<"7", "7", "1", "7">>, 1>> :> <<241, 182, 227, 1>> @@
     <<<<"q">>, <<"7", "7", "7", "1">>, 0>> :> <<239, 149, 41, 155>> @@
     <<<<"q">>, <<"7", "7", "7", "1">>, 1>> :> <<66, 99, 17, 135>> @@
     <<<<"q">>, <<"7", "7", "7", "7">>, 0>> :> <<227, 183, 3, 209>> @@
     <<<<"q">>, <<"7", "7", "7", "7">>, 1>> :> <<216, 133, 175, 33>>) @@
    (<<<<"CHANGE-ME-IN-ENV">>, <<"1">>, 0>> :> <<188, 196, 246, 53>> @@
     <<<<"CHANGE-ME-IN-ENV">>, <<"1">>, 1>> :> <<147, 107, 112, 158>> @@
     <<<<"CHANGE-ME-IN-ENV">>, <<"7">>, 0>> :> <<130, 230, 102, 117>> @@
     <<<<"CHANGE-ME-IN-ENV">>, <<"7">>, 1>> :> <<67, 21, 227, 77>> @@
     <<<<"CHANGE-ME-IN-ENV">>, <<"1", "1">>, 0>> :> <<235, 88, 91, 33>> @@
     <<<<"CHANGE-ME-IN-ENV">>, <<"1", "1">>, 1>> :> <<216, 16, 166, 108>> @@
     <<<<"CHANGE-ME-IN-ENV">>, <<"1", "7">>, 0>> :> <<239, 8, 31, 165>> @@
     <<<<"CHANGE-ME-IN-ENV">>, <<"1", "7">>, 1>> :> <<114, 226, 15, 83>> @@
     <<<<"CHANGE-ME-IN-ENV">>, <<"7", "1">>, 0>> :> <<130, 219, 90, 0>> @@
     <<<<"CHANGE-ME-IN-ENV">>, <<"7", "1">>, 1>> :> <<235, 33, 9, 39>> @@
     <<<<"CHANGE-ME-IN-ENV">>, <<"7", "7">>, 0>> :> <<116, 118, 119, 25>> @@
     <<<<"CHANGE-ME-IN-ENV">>, <<"7", "7">>, 1>> :> <<78, 9, 181, 175>>) @@
    (<<<<"CHANGE-ME-IN-ENV">>, <<"1", "1", "1">>, 0>> :> <<170, 98, 188, 157>> @@
     <<<<"CHANGE-ME-IN-ENV">>, <<"1", "1", "1">>, 1>> :> <<248, 152, 159, 208>> @@
     <<<<"CHANGE-ME-IN-ENV">>, <<"1", "1", "7">>, 0>> :> <<86, 180, 70, 119>> @@
     <<<<"CHANGE-ME-IN-ENV">>, <<"1", "1", "7">>, 1>> :> <<107, 204, 155, 163>> @@
     <<<<"CHANGE-ME-IN-ENV">>, <<"1", "7", "1">>, 0>> :> <<148, 83, 89, 43>> @@
     <<<<"CHANGE-ME-IN-ENV">>, <<"1", "7", "1">>, 1>> :> <<235, 240, 156, 38>> @@
     <<<<"CHANGE-ME-IN-ENV">>, <<"1", "7", "7">>, 0>> :> <<19, 246, 241, 29>> @@
     <<<<"CHANGE-ME-IN-ENV">>, <<"1", "7", "7">>, 1>> :> <<44, 27, 6, 3>> @@
     <<<<"CHANGE-ME-IN-ENV">>, <<"7", "1", "1">>, 0>> :> <<221, 134, 198, 15>> @@
     <<<<"CHANGE-ME-IN-ENV">>, <<"7", "1", "1">>, 1>> :> <<37, 95, 53, 172>> @@
     <<<<"CHANGE-ME-IN-ENV">>, <<"7", "1", "7">>, 0>> :> <<97, 129, 9, 212>> @@
     <<<<"CHANGE-ME-IN-ENV">>, <<"7", "1", "7">>, 1>> :> <<165, 165, 126, 33>>) @@
    (<<<<"CHANGE-ME-IN-ENV">>, <<"7", "7", "1">>, 0>> :> <<124, 26, 252, 19>> @@
     <<<<"CHANGE-ME-IN-ENV">>, <<"7", "7", "1">>, 1>> :> <<118, 181, 155, 4>> @@
     <<<<"CHANGE-ME-IN-ENV">>, <<"7", "7", "7">>, 0>> :> <<216, 19, 185, 93>> @@
     <<<<"CHANGE-ME-IN-ENV">>, <<"7", "7", "7">>, 1>> :> <<254, 217, 66, 121>> @@
     <<<<"CHANGE-ME-IN-ENV">>, <<"1", "1", "1", "1">>, 0>> :> <<92, 12, 202, 165>> @@
     <<<<"CHANGE-ME-IN-ENV">>, <<"1", "1", "1", "1">>, 1>> :> <<75, 204, 218, 103>> @@
     <<<<"CHANGE-ME-IN-ENV">>, <<"1", "1", "1", "7">>, 0>> :> <<183, 98, 109, 182>> @@
     <<<<"CHANGE-ME-IN-ENV">>, <<"1", "1", "1", "7">>, 1>> :> <<113, 252, 252, 140>> @@
     <<<<"CHANGE-ME-IN-ENV">>, <<"1", "1", "7", "1">>, 0>> :> <<37, 176, 103, 91>> @@
     <<<<"CHANGE-ME-IN-ENV">>, <<"1", "1", "7", "1">>, 1>> :> <<121, 83, 46, 166>> @@
     <<<<"CHANGE-ME-IN-ENV">>, <<"1", "1", "7", "7">>, 0>> :> <<151, 240, 208, 35>> @@
     <<<<"CHANGE-ME-IN-ENV">>, <<"1", "1", "7", "7">>, 1>> :> <<57, 102, 200, 167>>) @@
    (<<<<"CHANGE-ME-IN-ENV">>, <<"1", "7", "1", "1">>, 0>> :> <<177, 112, 166, 130>> @@
     <<<<"CHANGE-ME-IN-ENV">>, <<"1", "7", "1", "1">>, 1>> :> <<4, 46, 61, 104>> @@
     <<<<"CHANGE-ME-IN-ENV">>, <<"1", "7", "1", "7">>, 0>> :> <<55, 14, 167, 123>> @@
     <<<<"CHANGE-ME-IN-ENV">>, <<"1", "7", "1", "7">>, 1>> :> <<29, 20, 100, 158>> @@
     <<<<"CHANGE-ME-IN-ENV">>, <<"1", "7", "7", "1">>, 0>> :> <<249, 18, 25, 126>> @@
     <<<<"CHANGE-ME-IN-ENV">>, <<"1", "7", "7", "1">>, 1>> :> <<142, 57, 155, 0>> @@
     <<<<"CHANGE-ME-IN-ENV">>, <<"1", "7", "7", "7">>, 0>> :> <<44, 10, 14, 102>> @@
     <<<<"CHANGE-ME-IN-ENV">>, <<"1", "7", "7", "7">>, 1>> :> <<90, 112, 229, 213>> @@
     <<<<"CHANGE-ME-IN-ENV">>, <<"7", "1", "1", "1">>, 0>> :> <<35, 8, 76, 19>> @@
     <<<<"CHANGE-ME-IN-ENV">>, <<"7", "1", "1", "1">>, 1>> :> <<32, 151, 30, 9>> @@
     <<<<"CHANGE-ME-IN-ENV">>, <<"7", "1", "1", "7">>, 0>> :> <<173, 93, 59, 29>> @@
     <<<<"CHANGE-ME-IN-ENV">>, <<"7", "1", "1", "7">>, 1>> :> <<89, 86, 204, 140>>) @@
    (<<<<"CHANGE-ME-IN-ENV">>, <<"7", "1", "7", "1">>, 0>> :> <<4, 146, 44, 57>> @@
     <<<<"CHANGE-ME-IN-ENV">>, <<"7", "1", "7", "1">>, 1>> :> <<69, 242, 160, 217>> @@
     <<<<"CHANGE-ME-IN-ENV">>, <<"7", "1", "7", "7">>, 0>> :> <<166, 212, 232, 71>> @@
     <<<<"CHANGE-ME-IN-ENV">>, <<"7", "1", "7", "7">>, 1>> :> <<180, 176, 125, 94>> @@
     <<<<"CHANGE-ME-IN-ENV">>, <<"7", "7", "1", "1">>, 0>> :> <<86, 72, 250, 193>> @@
     <<<<"CHANGE-ME-IN-ENV">>, <<"7", "7", "1", "1">>, 1>> :> <<232, 73, 194, 203>> @@
     <<<<"CHANGE-ME-IN-ENV">>, <<"7", "7", "1", "7">>, 0>> :> <<80, 104, 165, 95>> @@
     <<<<"CHANGE-ME-IN-ENV">>, <<"7", "7", "1", "7">>, 1>> :> <<233, 14, 150, 155>> @@
     <<<<"CHANGE-ME-IN-ENV">>, <<"7", "7", "7", "1">>, 0>> :> <<212, 181, 149, 140>> @@
     <<<<"CHANGE-ME-IN-ENV">>, <<"7", "7", "7", "1">>, 1>> :> <<246, 180, 57, 221>> @@
     <<<<"CHANGE-ME-IN-ENV">>, <<"7", "7", "7", "7">>, 0>> :> <<136, 79, 148, 112>> @@
     <<<<"CHANGE-ME-IN-ENV">>, <<"7", "7", "7", "7">>, 1>> :> <<138, 71, 7, 180>>) @@
    (<<<<"k">>, <<"1", "1", "7", "7", "1", "1", "7", "7", "1">>, 0>> :> <<196, 72, 28, 117>> @@
     <<<<"k">>, <<"1", "1", "7", "7", "1", "1", "7", "7", "1">>, 1>> :> <<141, 45, 73, 173>> @@
     <<<<"k">>, <<"1", "1", "7", "7", "1", "1", "7", "7", "1">>, 2>> :> <<166, 22, 41, 174>> @@
     <<<<"k">>, <<"1", "7", "1", "1", "7", "7", "1", "1", "7">>, 0>> :> <<251, 147, 49, 227>> @@
     <<<<"k">>, <<"1", "7", "1", "1", "7", "7", "1", "1", "7">>, 1>> :> <<145, 213, 148, 190>> @@
     <<<<"k">>, <<"1", "7", "1", "1", "7", "7", "1", "1", "7">>, 2>> :> <<80, 177, 251, 180>> @@
     <<<<"k">>, <<"1", "7", "5", "3", "0", "7", "1", "1", "7">>, 0>> :> <<57, 93, 49, 17>> @@
     <<<<"k">>, <<"1", "7", "5", "3", "0", "7", "1", "1", "7">>, 1>> :> <<27, 236, 24, 101>> @@
     <<<<"k">>, <<"1", "7", "5", "3", "0", "7", "1", "1", "7">>, 2>> :> <<162, 79, 15, 165>> @@
     <<<<"k">>, <<"1", "7", "9", "5", "3", "7", "1", "1", "7">>, 0>> :> <<92, 125, 119, 146>> @@
     <<<<"k">>, <<"1", "7", "9", "5", "3", "7", "1", "1", "7">>, 1>> :> <<29, 138, 175, 82>> @@
     <<<<"k">>, <<"1", "7", "9", "5", "3", "7", "1", "1", "7">>, 2>> :> <<199, 108, 211, 80>>) @@
    (<<<<"k">>, <<"2", "2", "1", "8", "8", "1", "7", "1", "7">>, 0>> :> <<152, 28, 142, 46>> @@
     <<<<"k">>, <<"2", "2", "1", "8", "8", "1", "7", "1", "7">>, 1>> :> <<142, 33, 237, 172>> @@
     <<<<"k">>, <<"2", "2", "1", "8", "8", "1", "7", "1", "7">>, 2>> :> <<223, 17, 138, 31>> @@
     <<<<"k">>, <<"2", "2", "8", "8", "9", "1", "7", "1", "7">>, 0>> :> <<108, 5, 190, 118>> @@
     <<<<"k">>, <<"2", "2", "8", "8", "9", "1", "7", "1", "7">>, 1>> :> <<142, 181, 4, 26>> @@
     <<<<"k">>, <<"2", "2", "8", "8", "9", "1", "7", "1", "7">>, 2>> :> <<216, 147, 34, 159>> @@
     <<<<"k">>, <<"5", "1", "0", "1", "5", "1", "7", "1", "7">>, 0>> :> <<102, 179, 249, 2>> @@
     <<<<"k">>, <<"5", "1", "0", "1", "5", "1", "7", "1", "7">>, 1>> :> <<78, 170, 76, 98>> @@
     <<<<"k">>, <<"5", "1", "0", "1", "5", "1", "7", "1", "7">>, 2>> :> <<161, 140, 214, 67>> @@
     <<<<"k">>, <<"5", "1", "1", "0", "1", "1", "7", "1", "7">>, 0>> :> <<191, 249, 226, 138>> @@
     <<<<"k">>, <<"5", "1", "1", "0", "1", "1", "7", "1", "7">>, 1>> :> <<9, 14, 133, 134>> @@
     <<<<"k">>, <<"5", "1", "1", "0", "1", "1", "7", "1", "7">>, 2>> :> <<38, 18, 188, 228>>) @@
    (<<<<"k">>, <<"5", "5", "3", "9", "0", "1", "7", "1", "7">>, 0>> :> <<94, 72, 68, 211>> @@
     <<<<"k">>, <<"5", "5", "3", "9", "0", "1", "7", "1", "7">>, 1>> :> <<2, 47, 81, 143>> @@
     <<<<"k">>, <<"5", "5", "3", "9", "0", "1", "7", "1", "7">>, 2>> :> <<16, 14, 248, 148>> @@
     <<<<"k">>, <<"5", "5", "9", "0", "8", "1", "7", "1", "7">>, 0>> :> <<153, 152, 187, 183>> @@
     <<<<"k">>, <<"5", "5", "9", "0", "8", "1", "7", "1", "7">>, 1>> :> <<3, 119, 114, 172>> @@
     <<<<"k">>, <<"5", "5", "9", "0", "8", "1", "7", "1", "7">>, 2>> :> <<212, 243, 73, 190>> @@
     <<<<"k">>, <<"5", "8", "6", "9", "5", "1", "7", "7", "1">>, 0>> :> <<155, 234, 211, 125>> @@
     <<<<"k">>, <<"5", "8", "6", "9", "5", "1", "7", "7", "1">>, 1>> :> <<200, 224, 221, 38>> @@
     <<<<"k">>, <<"5", "8", "6", "9", "5", "1", "7", "7", "1">>, 2>> :> <<218, 166, 5, 204>> @@
     <<<<"k">>, <<"5", "8", "9", "5", "5", "1", "7", "7", "1">>, 0>> :> <<206, 110, 73, 204>> @@
     <<<<"k">>, <<"5", "8", "9", "5", "5", "1", "7", "7", "1">>, 1>> :> <<88, 31, 170, 207>> @@
     <<<<"k">>, <<"5", "8", "9", "5", "5", "1", "7", "7", "1">>, 2>> :> <<22, 22, 213, 78>>) @@
    (<<<<"k">>, <<"6", "0", "2", "8", "7", "1", "7", "7", "1">>, 0>> :> <<14, 32, 99, 26>> @@
     <<<<"k">>, <<"6", "0", "2", "8", "7", "1", "7", "7", "1">>, 1>> :> <<134, 196, 6, 240>> @@
     <<<<"k">>, <<"6", "0", "2", "8", "7", "1", "7", "7", "1">>, 2>> :> <<227, 31, 240, 130>> @@
     <<<<"k">>, <<"6", "0", "8", "7", "8", "1", "7", "7", "1">>, 0>> :> <<184, 73, 240, 208>> @@
     <<<<"k">>, <<"6", "0", "8", "7", "8", "1", "7", "7", "1">>, 1>> :> <<102, 199, 251, 248>> @@
     <<<<"k">>, <<"6", "0", "8", "7", "8", "1", "7", "7", "1">>, 2>> :> <<65, 237, 241, 226>> @@
     <<<<"k">>, <<"6", "2", "1", "5", "6", "1", "7", "7", "1">>, 0>> :> <<4, 49, 96, 206>> @@
     <<<<"k">>, <<"6", "2", "1", "5", "6", "1", "7", "7", "1">>, 1>> :> <<249, 241, 106, 225>> @@
     <<<<"k">>, <<"6", "2", "1", "5", "6", "1", "7", "7", "1">>, 2>> :> <<42, 13, 180, 240>> @@
     <<<<"k">>, <<"6", "2", "8", "1", "5", "1", "7", "7", "1">>, 0>> :> <<102, 142, 59, 71>> @@
     <<<<"k">>, <<"6", "2", "8", "1", "5", "1", "7", "7", "1">>, 1>> :> <<195, 107, 149, 144>> @@
     <<<<"k">>, <<"6", "2", "8", "1", "5", "1", "7", "7", "1">>, 2>> :> <<88, 25, 64, 1>>) @@
    (<<<<"k">>, <<"6", "5", "7", "7", "8", "7", "1", "1", "7">>, 0>> :> <<77, 207, 160, 37>> @@
     <<<<"k">>, <<"6", "5", "7", "7", "8", "7", "1", "1", "7">>, 1>> :> <<65, 123, 233, 160>> @@
     <<<<"k">>, <<"6", "5", "7", "7", "8", "7", "1", "1", "7">>, 2>> :> <<126, 226, 200, 161>> @@
     <<<<"k">>, <<"6", "5", "7", "8", "2", "7", "1", "1", "7">>, 0>> :> <<85, 105, 88, 206>> @@
     <<<<"k">>, <<"6", "5", "7", "8", "2", "7", "1", "1", "7">>, 1>> :> <<20, 59, 138, 141>> @@
     <<<<"k">>, <<"6", "5", "7", "8", "2", "7", "1", "1", "7">>, 2>> :> <<21, 91, 28, 241>> @@
     <<<<"k">>, <<"7", "1", "7", "1", "7", "1", "7", "1", "7">>, 0>> :> <<195, 25, 3, 65>> @@
     <<<<"k">>, <<"7", "1", "7", "1", "7", "1", "7", "1", "7">>, 1>> :> <<59, 50, 192, 140>> @@
     <<<<"k">>, <<"7", "1", "7", "1", "7", "1", "7", "1", "7">>, 2>> :> <<138, 160, 154, 74>> @@
     <<<<"k">>, <<"9", "2", "6", "5", "1", "7", "1", "1", "7">>, 0>> :> <<173, 90, 154, 171>> @@
     <<<<"k">>, <<"9", "2", "6", "5", "1", "7", "1", "1", "7">>, 1>> :> <<186, 50, 22, 178>> @@
     <<<<"k">>, <<"9", "2", "6", "5", "1", "7", "1", "1", "7">>, 2>> :> <<90, 59, 78, 187>>) @@
    (<<<<"k">>, <<"9", "2", "6", "6", "5", "7", "1", "1", "7">>, 0>> :> <<43, 113, 17, 37>> @@
     <<<<"k">>, <<"9", "2", "6", "6", "5", "7", "1", "1", "7">>, 1>> :> <<33, 201, 167, 173>> @@
     <<<<"k">>, <<"9", "2", "6", "6", "5", "7", "1", "1", "7">>, 2>> :> <<93, 229, 204, 217>> @@
     <<<<"q">>, <<"1", "1", "7", "7", "1", "1", "7", "7", "1">>, 0>> :> <<216, 150, 62, 166>> @@
     <<<<"q">>, <<"1", "1", "7", "7", "1", "1", "7", "7", "1">>, 1>> :> <<188, 207, 144, 238>> @@
     <<<<"q">>, <<"1", "1", "7", "7", "1", "1", "7", "7", "1">>, 2>> :> <<228, 186, 36, 41>> @@
     <<<<"q">>, <<"1", "7", "1", "1", "7", "7", "1", "1", "7">>, 0>> :> <<46, 145, 237, 185>> @@
     <<<<"q">>, <<"1", "7", "1", "1", "7", "7", "1", "1", "7">>, 1>> :> <<47, 248, 222, 27>> @@
     <<<<"q">>, <<"1", "7", "1", "1", "7", "7", "1", "1", "7">>, 2>> :> <<162, 53, 40, 61>> @@
     <<<<"q">>, <<"1", "7", "5", "3", "0", "7", "1", "1", "7">>, 0>> :> <<202, 103, 132, 165>> @@
     <<<<"q">>, <<"1", "7", "5", "3", "0", "7", "1", "1", "7">>, 1>> :> <<52, 194, 15, 178>> @@
     <<<<"q">>, <<"1", "7", "5", "3", "0", "7", "1", "1", "7">>, 2>> :> <<1, 195, 224, 9>>) @@
    (<<<<"q">>, <<"1", "7", "9", "5", "3", "7", "1", "1", "7">>, 0>> :> <<127, 236, 97, 47>> @@
     <<<<"q">>, <<"1", "7", "9", "5", "3", "7", "1", "1", "7">>, 1>> :> <<109, 198, 84, 221>> @@
     <<<<"q">>, <<"1", "7", "9", "5", "3", "7", "1", "1", "7">>, 2>> :> <<234, 130, 73, 30>> @@
     <<<<"q">>, <<"2", "2", "1", "8", "8", "1", "7", "1", "7">>, 0>> :> <<85, 60, 16, 64>> @@
     <<<<"q">>, <<"2", "2", "1", "8", "8", "1", "7", "1", "7">>, 1>> :> <<16, 153, 197, 67>> @@
     <<<<"q">>, <<"2", "2", "1", "8", "8", "1", "7", "1", "7">>, 2>> :> <<239, 5, 77, 82>> @@
     <<<<"q">>, <<"2", "2", "8", "8", "9", "1", "7", "1", "7">>, 0>> :> <<71, 89, 88, 16>> @@
     <<<<"q">>, <<"2", "2", "8", "8", "9", "1", "7", "1", "7">>, 1>> :> <<226, 206, 249, 178>> @@
     <<<<"q">>, <<"2", "2", "8", "8", "9", "1", "7", "1", "7">>, 2>> :> <<39, 89, 0, 215>> @@
     <<<<"q">>, <<"5", "1", "0", "1", "5", "1", "7", "1", "7">>, 0>> :> <<221, 201, 249, 72>> @@
     <<<<"q">>, <<"5", "1", "0", "1", "5", "1", "7", "1", "7">>, 1>> :> <<120, 201, 108, 230>> @@
     <<<<"q">>, <<"5", "1", "0", "1", "5", "1", "7", "1", "7">>, 2>> :> <<234, 252, 175, 202>>) @@
    (<<<<"q">>, <<"5", "1", "1", "0", "1", "1", "7", "1", "7">>, 0>> :> <<116, 187, 195, 131>> @@
     <<<<"q">>, <<"5", "1", "1", "0", "1", "1", "7", "1", "7">>, 1>> :> <<91, 98, 223, 179>> @@
     <<<<"q">>, <<"5", "1", "1", "0", "1", "1", "7", "1", "7">>, 2>> :> <<131, 147, 217, 61>> @@
     <<<<"q">>, <<"5", "5", "3", "9", "0", "1", "7", "1", "7">>, 0>> :> <<34, 147, 209, 17>> @@
     <<<<"q">>, <<"5", "5", "3", "9", "0", "1", "7", "1", "7">>, 1>> :> <<0, 41, 27, 133>> @@
     <<<<"q">>, <<"5", "5", "3", "9", "0", "1", "7", "1", "7">>, 2>> :> <<49, 218, 14, 210>> @@
     <<<<"q">>, <<"5", "5", "9", "0", "8", "1", "7", "1", "7">>, 0>> :> <<237, 223, 159, 133>> @@
     <<<<"q">>, <<"5", "5", "9", "0", "8", "1", "7", "1", "7">>, 1>> :> <<168, 97, 129, 68>> @@
     <<<<"q">>, <<"5", "5", "9", "0", "8", "1", "7", "1", "7">>, 2>> :> <<239, 130, 135, 207>> @@
     <<<<"q">>, <<"5", "8", "6", "9", "5", "1", "7", "7", "1">>, 0>> :> <<49, 13, 106, 79>> @@
     <<<<"q">>, <<"5", "8", "6", "9", "5", "1", "7", "7", "1">>, 1>> :> <<215, 193, 14, 97>> @@
     <<<<"q">>, <<"5", "8", "6", "9", "5", "1", "7", "7", "1">>, 2>> :> <<150, 227, 227, 178>>) @@
    (<<<<"q">>, <<"5", "8", "9", "5", "5", "1", "7", "7", "1">>, 0>> :> <<47, 6, 255, 218>> @@
     <<<<"q">>, <<"5", "8", "9", "5", "5", "1", "7", "7", "1">>, 1>> :> <<36, 236, 196, 225>> @@
     <<<<"q">>, <<"5", "8", "9", "5", "5", "1", "7", "7", "1">>, 2>> :> <<69, 69, 249, 19>> @@
     <<<<"q">>, <<"6", "0", "2", "8", "7", "1", "7", "7", "1">>, 0>> :> <<63, 18, 203, 247>> @@
     <<<<"q">>, <<"6", "0", "2", "8", "7", "1", "7", "7", "1">>, 1>> :> <<23, 168, 19, 244>> @@
     <<<<"q">>, <<"6", "0", "2", "8", "7", "1", "7", "7", "1">>, 2>> :> <<75, 224, 241, 79>> @@
     <<<<"q">>, <<"6", "0", "8", "7", "8", "1", "7", "7", "1">>, 0>> :> <<169, 216, 4, 184>> @@
     <<<<"q">>, <<"6", "0", "8", "7", "8", "1", "7", "7", "1">>, 1>> :> <<251, 11, 221, 13>> @@
     <<<<"q">>, <<"6", "0", "8", "7", "8", "1", "7", "7", "1">>, 2>> :> <<237, 18, 45, 97>> @@
     <<<<"q">>, <<"6", "2", "1", "5", "6", "1", "7", "7", "1">>, 0>> :> <<242, 135, 247, 217>> @@
     <<<<"q">>, <<"6", "2", "1", "5", "6", "1", "7", "7", "1">>, 1>> :> <<84, 204, 192, 162>> @@
     <<<<"q">>, <<"6", "2", "1", "5", "6", "1", "7", "7", "1">>, 2>> :> <<204, 243, 62, 227>>) @@
    (<<<<"q">>, <<"6", "2", "8", "1", "5", "1", "7", "7", "1">>, 0>> :> <<178, 39, 168, 117>> @@
     <<<<"q">>, <<"6", "2", "8", "1", "5", "1", "7", "7", "1">>, 1>> :> <<200, 11, 82, 241>> @@
     <<<<"q">>, <<"6", "2", "8", "1", "5", "1", "7", "7", "1">>, 2>> :> <<239, 29, 246, 75>> @@
     <<<<"q">>, <<"6", "5", "7", "7", "8", "7", "1", "1", "7">>, 0>> :> <<19, 202, 93, 166>> @@
     <<<<"q">>, <<"6", "5", "7", "7", "8", "7", "1", "1", "7">>, 1>> :> <<171, 124, 222, 223>> @@
     <<<<"q">>, <<"6", "5", "7", "7", "8", "7", "1", "1", "7">>, 2>> :> <<183, 99, 149, 6>> @@
     <<<<"q">>, <<"6", "5", "7", "8", "2", "7", "1", "1", "7">>, 0>> :> <<121, 213, 90, 52>> @@
     <<<<"q">>, <<"6", "5", "7", "8", "2", "7", "1", "1", "7">>, 1>> :> <<17, 135, 243, 221>> @@
     <<<<"q">>, <<"6", "5", "7", "8", "2", "7", "1", "1", "7">>, 2>> :> <<86, 252, 144, 56>> @@
     <<<<"q">>, <<"7", "1", "7", "1", "7", "1", "7", "1", "7">>, 0>> :> <<222, 112, 1, 192>> @@
     <<<<"q">>, <<"7", "1", "7", "1", "7", "1", "7", "1", "7">>, 1>> :> <<188, 38, 81, 67>> @@
     <<<<"q">>, <<"7", "1", "7", "1", "7", "1", "7", "1", "7">>, 2>> :> <<209, 4, 74, 193>>) @@
    (<<<<"q">>, <<"9", "2", "6", "5", "1", "7", "1", "1", "7">>, 0>> :> <<58, 44, 228, 208>> @@
     <<<<"q">>, <<"9", "2", "6", "5", "1", "7", "1", "1", "7">>, 1>> :> <<11, 42, 228, 70>> @@
     <<<<"q">>, <<"9", "2", "6", "5", "1", "7", "1", "1", "7">>, 2>> :> <<253, 37, 59, 60>> @@
     <<<<"q">>, <<"9", "2", "6", "6", "5", "7", "1", "1", "7">>, 0>> :> <<185, 246, 143, 201>> @@
     <<<<"q">>, <<"9", "2", "6", "6", "5", "7", "1", "1", "7">>, 1>> :> <<93, 230, 220, 239>> @@
     <<<<"q">>, <<"9", "2", "6", "6", "5", "7", "1", "1", "7">>, 2>> :> <<2, 35, 93, 86>> @@
     <<<<"CHANGE-ME-IN-ENV">>, <<"1", "1", "7", "7", "1", "1", "7", "7", "1">>, 0>> :> <<65, 108, 186, 107>> @@
     <<<<"CHANGE-ME-IN-ENV">>, <<"1", "1", "7", "7", "1", "1", "7", "7", "1">>, 1>> :> <<189, 165, 130, 123>> @@
     <<<<"CHANGE-ME-IN-ENV">>, <<"1", "1", "7", "7", "1", "1", "7", "7", "1">>, 2>> :> <<145, 238, 159, 153>> @@
     <<<<"CHANGE-ME-IN-ENV">>, <<"1", "7", "1", "1", "7", "7", "1", "1", "7">>, 0>> :> <<19, 52, 196, 27>> @@
     <<<<"CHANGE-ME-IN-ENV">>, <<"1", "7", "1", "1", "7", "7", "1", "1", "7">>, 1>> :> <<176, 135, 90, 44>> @@
     <<<<"CHANGE-ME-IN-ENV">>, <<"1", "7", "1", "1", "7", "7", "1", "1", "7">>, 2>> :> <<31, 142, 69, 137>>) @@
    (<<<<"CHANGE-ME-IN-ENV">>, <<"1", "7", "5", "3", "0", "7", "1", "1", "7">>, 0>> :> <<96, 74, 223, 81>> @@
     <<<<"CHANGE-ME-IN-ENV">>, <<"1", "7", "5", "3", "0", "7", "1", "1", "7">>, 1>> :> <<83, 156, 218, 176>> @@
     <<<<"CHANGE-ME-IN-ENV">>, <<"1", "7", "5", "3", "0", "7", "1", "1", "7">>, 2>> :> <<243, 0, 177, 186>> @@
     <<<<"CHANGE-ME-IN-ENV">>, <<"1", "7", "9", "5", "3", "7", "1", "1", "7">>, 0>> :> <<153, 216, 210, 146>> @@
     <<<<"CHANGE-ME-IN-ENV">>, <<"1", "7", "9", "5", "3", "7", "1", "1", "7">>, 1>> :> <<77, 121, 129, 217>> @@
     <<<<"CHANGE-ME-IN-ENV">>, <<"1", "7", "9", "5", "3", "7", "1", "1", "7">>, 2>> :> <<238, 109, 89, 106>> @@
     <<<<"CHANGE-ME-IN-ENV">>, <<"2", "2", "1", "8", "8", "1", "7", "1", "7">>, 0>> :> <<71, 186, 9, 96>> @@
     <<<<"CHANGE-ME-IN-ENV">>, <<"2", "2", "1", "8", "8", "1", "7", "1", "7">>, 1>> :> <<65, 80, 99, 18>> @@
     <<<<"CHANGE-ME-IN-ENV">>, <<"2", "2", "1", "8", "8", "1", "7", "1", "7">>, 2>> :> <<98, 210, 105, 60>> @@
     <<<<"CHANGE-ME-IN-ENV">>, <<"2", "2", "8", "8", "9", "1", "7", "1", "7">>, 0>> :> <<22, 174, 19, 136>> @@
     <<<<"CHANGE-ME-IN-ENV">>, <<"2", "2", "8", "8", "9", "1", "7", "1", "7">>, 1>> :> <<178, 33, 147, 174>> @@
     <<<<"CHANGE-ME-IN-ENV">>, <<"2", "2", "8", "8", "9", "1", "7", "1", "7">>, 2>> :> <<89, 8, 234, 173>>) @@
    (<<<<"CHANGE-ME-IN-ENV">>, <<"5", "1", "0", "1", "5", "1", "7", "1", "7">>, 0>> :> <<6, 73, 218, 52>> @@
     <<<<"CHANGE-ME-IN-ENV">>, <<"5", "1", "0", "1", "5", "1", "7", "1", "7">>, 1>> :> <<66, 48, 138, 60>> @@
     <<<<"CHANGE-ME-IN-ENV">>, <<"5", "1", "0", "1", "5", "1", "7", "1", "7">>, 2>> :> <<124, 10, 157, 48>> @@
     <<<<"CHANGE-ME-IN-ENV">>, <<"5", "1", "1", "0", "1", "1", "7", "1", "7">>, 0>> :> <<85, 116, 141, 220>> @@
     <<<<"CHANGE-ME-IN-ENV">>, <<"5", "1", "1", "0", "1", "1", "7", "1", "7">>, 1>> :> <<65, 141, 79, 163>> @@
     <<<<"CHANGE-ME-IN-ENV">>, <<"5", "1", "1", "0", "1", "1", "7", "1", "7">>, 2>> :> <<172, 156, 33, 30>> @@
     <<<<"CHANGE-ME-IN-ENV">>, <<"5", "5", "3", "9", "0", "1", "7", "1", "7">>, 0>> :> <<138, 197, 184, 157>> @@
     <<<<"CHANGE-ME-IN-ENV">>, <<"5", "5", "3", "9", "0", "1", "7", "1", "7">>, 1>> :> <<178, 37, 0, 196>> @@
     <<<<"CHANGE-ME-IN-ENV">>, <<"5", "5", "3", "9", "0", "1", "7", "1", "7">>, 2>> :> <<160, 53, 30, 234>> @@
     <<<<"CHANGE-ME-IN-ENV">>, <<"5", "5", "9", "0", "8", "1", "7", "1", "7">>, 0>> :> <<177, 26, 191, 214>> @@
     <<<<"CHANGE-ME-IN-ENV">>, <<"5", "5", "9", "0", "8", "1", "7", "1", "7">>, 1>> :> <<12, 209, 62, 176>> @@
     <<<<"CHANGE-ME-IN-ENV">>, <<"5", "5", "9", "0", "8", "1", "7", "1", "7">>, 2>> :> <<120, 165, 126, 249>>) @@
    (<<<<"CHANGE-ME-IN-ENV">>, <<"5", "8", "6", "9", "5", "1", "7", "7", "1">>, 0>> :> <<176, 142, 79, 239>> @@
     <<<<"CHANGE-ME-IN-ENV">>, <<"5", "8", "6", "9", "5", "1", "7", "7", "1">>, 1>> :> <<80, 159, 161, 134>> @@
     <<<<"CHANGE-ME-IN-ENV">>, <<"5", "8", "6", "9", "5", "1", "7", "7", "1">>, 2>> :> <<115, 48, 246, 16>> @@
     <<<<"CHANGE-ME-IN-ENV">>, <<"5", "8", "9", "5", "5", "1", "7", "7", "1">>, 0>> :> <<171, 252, 92, 108>> @@
     <<<<"CHANGE-ME-IN-ENV">>, <<"5", "8", "9", "5", "5", "1", "7", "7", "1">>, 1>> :> <<191, 177, 107, 95>> @@
     <<<<"CHANGE-ME-IN-ENV">>, <<"5", "8", "9", "5", "5", "1", "7", "7", "1">>, 2>> :> <<252, 29, 219, 66>> @@
     <<<<"CHANGE-ME-IN-ENV">>, <<"6", "0", "2", "8", "7", "1", "7", "7", "1">>, 0>> :> <<28, 214, 123, 214>> @@
     <<<<"CHANGE-ME-IN-ENV">>, <<"6", "0", "2", "8", "7", "1", "7", "7", "1">>, 1>> :> <<227, 66, 238, 27>> @@
     <<<<"CHANGE-ME-IN-ENV">>, <<"6", "0", "2", "8", "7", "1", "7", "7", "1">>, 2>> :> <<44, 194, 104, 219>> @@
     <<<<"CHANGE-ME-IN-ENV">>, <<"6", "0", "8", "7", "8", "1", "7", "7", "1">>, 0>> :> <<57, 34, 191, 27>> @@
     <<<<"CHANGE-ME-IN-ENV">>, <<"6", "0", "8", "7", "8", "1", "7", "7", "1">>, 1>> :> <<31, 110, 231, 97>> @@
     <<<<"CHANGE-ME-IN-ENV">>, <<"6", "0", "8", "7", "8", "1", "7", "7", "1">>, 2>> :> <<234, 223, 61, 248>>) @@
    (<<<<"CHANGE-ME-IN-ENV">>, <<"6", "2", "1", "5", "6", "1", "7", "7", "1">>, 0>> :> <<143, 10, 236, 254>> @@
     <<<<"CHANGE-ME-IN-ENV">>, <<"6", "2", "1", "5", "6", "1", "7", "7", "1">>, 1>> :> <<82, 206, 90, 86>> @@
     <<<<"CHANGE-ME-IN-ENV">>, <<"6", "2", "1", "5", "6", "1", "7", "7", "1">>, 2>> :> <<185, 247, 206, 142>> @@
     <<<<"CHANGE-ME-IN-ENV">>, <<"6", "2", "8", "1", "5", "1", "7", "7", "1">>, 0>> :> <<50, 227, 249, 153>> @@
     <<<<"CHANGE-ME-IN-ENV">>, <<"6", "2", "8", "1", "5", "1", "7", "7", "1">>, 1>> :> <<54, 235, 11, 122>> @@
     <<<<"CHANGE-ME-IN-ENV">>, <<"6", "2", "8", "1", "5", "1", "7", "7", "1">>, 2>> :> <<90, 179, 219, 120>> @@
     <<<<"CHANGE-ME-IN-ENV">>, <<"6", "5", "7", "7", "8", "7", "1", "1", "7">>, 0>> :> <<215, 172, 212, 133>> @@
     <<<<"CHANGE-ME-IN-ENV">>, <<"6", "5", "7", "7", "8", "7", "1", "1", "7">>, 1>> :> <<67, 64, 88, 8>> @@
     <<<<"CHANGE-ME-IN-ENV">>, <<"6", "5", "7", "7", "8", "7", "1", "1", "7">>, 2>> :> <<173, 209, 104, 170>> @@
     <<<<"CHANGE-ME-IN-ENV">>, <<"6", "5", "7", "8", "2", "7", "1", "1", "7">>, 0>> :> <<70, 255, 210, 131>> @@
     <<<<"CHANGE-ME-IN-ENV">>, <<"6", "5", "7", "8", "2", "7", "1", "1", "7">>, 1>> :> <<238, 237, 253, 62>> @@
     <<<<"CHANGE-ME-IN-ENV">>, <<"6", "5", "7", "8", "2", "7", "1", "1", "7">>, 2>> :> <<107, 189, 104, 48>>) @@
    (<<<<"CHANGE-ME-IN-ENV">>, <<"7", "1", "7", "1", "7", "1", "7", "1", "7">>, 0>> :> <<45, 51, 81, 201>> @@
     <<<<"CHANGE-ME-IN-ENV">>, <<"7", "1", "7", "1", "7", "1", "7", "1", "7">>, 1>> :> <<0, 121, 117, 69>> @@
     <<<<"CHANGE-ME-IN-ENV">>, <<"7", "1", "7", "1", "7", "1", "7", "1", "7">>, 2>> :> <<15, 236, 252, 98>> @@
     <<<<"CHANGE-ME-IN-ENV">>, <<"9", "2", "6", "5", "1", "7", "1", "1", "7">>, 0>> :> <<99, 245, 103, 50>> @@
     <<<<"CHANGE-ME-IN-ENV">>, <<"9", "2", "6", "5", "1", "7", "1", "1", "7">>, 1>> :> <<35, 250, 68, 83>> @@
     <<<<"CHANGE-ME-IN-ENV">>, <<"9", "2", "6", "5", "1", "7", "1", "1", "7">>, 2>> :> <<132, 62, 104, 38>> @@
     <<<<"CHANGE-ME-IN-ENV">>, <<"9", "2", "6", "6", "5", "7", "1", "1", "7">>, 0>> :> <<82, 119, 238, 221>> @@
     <<<<"CHANGE-ME-IN-ENV">>, <<"9", "2", "6", "6", "5", "7", "1", "1", "7">>, 1>> :> <<175, 75, 113, 49>> @@
     <<<<"CHANGE-ME-IN-ENV">>, <<"9", "2", "6", "6", "5", "7", "1", "1", "7">>, 2>> :> <<91, 165, 46, 80>>)

\* hmac.new(key, f"{seed}|{i}", sha256).digest(), cut to DigestLen bytes; a
\* message outside the table gets the bytes of a fixed mixing function
HmacDigest(k, seed, i) ==
    IF <<k, seed, i>> \in DOMAIN HmacSha256
    THEN SubSeq(HmacSha256[<<k, seed, i>>], 1, DigestLen)
    ELSE LET h == Mix(Mix(5381, k) + 131 * i, seed)
         IN  [j \in 1..DigestLen |-> ((h + j) * (2 * j + 37) + (h \div 256)) % 256]

RECURSIVE StreamFrom(_, _, _, _, _)
StreamFrom(k, seed, n, i, out) ==
    IF ~(Len(out) < n) THEN SubSeq(out, 1, n)
    ELSE LET block == HmacDigest(k, seed, i)
         IN  StreamFrom(k, seed, n, i + 1, out \o [j \in 1..Len(block) |-> block[j] % 10])

pseudo_digit_stream(k, seed, n) == StreamFrom(k, seed, n, 0, <<>>)

IndexError == <<"IndexError">>

\* the reinsertion loop; new_digits[idx] past the end raises IndexError
RECURSIVE Reinsert(_, _, _, _, _)
Reinsert(s, new_digits, pos, idx, res) ==
    IF pos > Len(s) THEN res
    ELSE IF IsDigit(s[pos])
         THEN IF idx + 1 > Len(new_digits) THEN IndexError
              ELSE Reinsert(s, new_digits, pos + 1, idx + 1, Append(res, new_digits[idx + 1]))
         ELSE Reinsert(s, new_digits, pos + 1, idx, Append(res, s[pos]))

\* faulty variants of deterministic_numeric_like: keep placed first; whole value as seed
deterministic_numeric_like_KeepFirst(v, p, k) ==
    IF v = None THEN None
    ELSE LET digits == Digits(v)
         IN  IF digits = <<>> THEN v
             ELSE LET keep == IF 0 < p /\ p < Len(digits)
                              THEN SubSeq(digits, Len(digits) - p + 1, Len(digits))
                              ELSE <<>>
                      repl_len == Len(digits) - Len(keep)
                      stream == pseudo_digit_stream(k, digits, repl_len)
                      new_digits == keep \o [j \in 1..Len(stream) |-> AsciiDigits[stream[j] + 1]]
                  IN  Reinsert(v, new_digits, 1, 0, <<>>)

deterministic_numeric_like_SeedValue(v, p, k) ==
    IF v = None THEN None
    ELSE LET digits == Digits(v)
         IN  IF digits = <<>> THEN v
             ELSE LET keep == IF 0 < p /\ p < Len(digits)
                              THEN SubSeq(digits, Len(digits) - p + 1, Len(digits))
                              ELSE <<>>
                      repl_len == Len(digits) - Len(keep)
                      stream == pseudo_digit_stream(k, v, repl_len)
                      new_digits == [j \in 1..Len(stream) |-> AsciiDigits[stream[j] + 1]] \o keep
                  IN  Reinsert(v, new_digits, 1, 0, <<>>)

deterministic_numeric_like_FixedKey(v, p, k) ==
    IF v = None THEN None
    ELSE LET digits == Digits(v)
         IN  IF digits = <<>> THEN v
             ELSE LET keep == IF 0 < p /\ p < Len(digits)
                              THEN SubSeq(digits, Len(digits) - p + 1, Len(digits))
                              ELSE <<>>
                      repl_len == Len(digits) - Len(keep)
                      stream == pseudo_digit_stream(<<"CHANGE-ME-IN-ENV">>, digits, repl_len)
                      new_digits == [j \in 1..Len(stream) |-> AsciiDigits[stream[j] + 1]] \o keep
                  IN  Reinsert(v, new_digits, 1, 0, <<>>)

deterministic_numeric_like_KeepAll(v, p, k) ==
    IF v = None THEN None
    ELSE LET digits == Digits(v)
         IN  IF digits = <<>> THEN v
             ELSE LET keep == IF 0 < p /\ p <= Len(digits)
                              THEN SubSeq(digits, Len(digits) - p + 1, Len(digits))
                              ELSE <<>>
                      repl_len == Len(digits) - Len(keep)
                      stream == pseudo_digit_stream(k, digits, repl_len)
                      new_digits == [j \in 1..Len(stream) |-> AsciiDigits[stream[j] + 1]] \o keep
                  IN  Reinsert(v, new_digits, 1, 0, <<>>)

deterministic_numeric_like(v, p, k) ==
    IF v = None THEN None
    ELSE LET digits == Digits(v)
         IN  IF digits = <<>> THEN v
             ELSE LET keep == IF 0 < p /\ p < Len(digits)
                              THEN SubSeq(digits, Len(digits) - p + 1, Len(digits))
                              ELSE <<>>
                      repl_len == Len(digits) - Len(keep)
                      stream == pseudo_digit_stream(k, digits, repl_len)
                      new_digits == [j \in 1..Len(stream) |-> AsciiDigits[stream[j] + 1]] \o keep
                  IN  Reinsert(v, new_digits, 1, 0, <<>>)

\* DataObfuscator.obfuscate_account: strip, "" stays "", otherwise
\* deterministic_numeric_like(s, preserve_last=4) under PSEUDO_KEY
AccountPreserveLast == 4

obfuscate_account(account, k) ==
    IF account = None THEN None
    ELSE LET s == Strip(account)
         IN  IF s = <<>> THEN <<>>
             ELSE deterministic_numeric_like(s, AccountPreserveLast, k)

Values == SeqsUpTo({"1", "7", "-", "^2"}, MaxValueLen)

Keys == {<<"k">>, <<"q">>}

\* PSEUDO_KEY = os.getenv("SHIELD_PSEUDO_KEY", "CHANGE-ME-IN-ENV"); env is the
\* value of the environment variable, None when it is unset
DefaultKey == <<"CHANGE-ME-IN-ENV">>

PSEUDO_KEY(env) == IF env = None THEN DefaultKey ELSE env

PInit ==
    /\ value \in Values
    /\ other \in {v \in Values : Digits(v) = Digits(value)}
    /\ preserve_last \in (-1)..(MaxValueLen + 1)
    /\ env_key \in Keys \cup {None}
    /\ key = PSEUDO_KEY(env_key)
    /\ pseudo = None /\ pseudo_other = None
    /\ config = <<>> /\ trace = <<>> /\ cmds = <<>>
    /\ pc = "input"
    /\ text = <<>> /\ entities = <<>> /\ result = <<>>

\* deterministic_numeric_like(value, preserve_last, key)
PseudonymizeValue ==
    /\ pc = "input"
    /\ pseudo' = deterministic_numeric_like(value, preserve_last, key)
    /\ pc' = "first"
    /\ UNCHANGED <<rvars, value, other, preserve_last, env_key, key, pseudo_other, xvars, cmds>>

\* the same identifier in another formatting, same preserve_last and key
PseudonymizeOther ==
    /\ pc = "first"
    /\ pseudo_other' = deterministic_numeric_like(other, preserve_last, key)
    /\ pc' = "done"
    /\ UNCHANGED <<rvars, value, other, preserve_last, env_key, key, pseudo, xvars, cmds>>

\* obfuscate_account(value) with the module's PSEUDO_KEY
ObfuscateAccount ==
    /\ pc = "input"
    /\ pseudo' = obfuscate_account(value, key)
    /\ pc' = "account"
    /\ UNCHANGED <<rvars, value, other, preserve_last, env_key, key, pseudo_other, xvars, cmds>>

PNext == PseudonymizeValue \/ PseudonymizeOther \/ ObfuscateAccount

SpecPseudo == PInit /\ [][PNext]_vars

\* \w of a str pattern: letters, digits and the underscore
WordChars ==
    Range(AsciiDigits) \cup {"_", "a", "b", "n", "x", "y", "z", "A", "B", "N", "X", "Y", "Z"}

\* \b at offset i of s: exactly one of the characters on its two sides is a
\* word character, the outside of the string counting as none
WordBoundary(s, i) ==
    LET before == i >= 1 /\ s[i] \in WordChars
        after == i < Len(s) /\ s[i + 1] \in WordChars
    IN before # after

\* offset after n digits starting at offset i of s, or -1
DigitsAt(s, i, n) ==
    IF i >= 0 /\ i + n <= Len(s) /\ \A j \in (i + 1)..(i + n) : IsReDigit(s[j])
    THEN i + n ELSE -1

\* [ -]? at offset i of s: the separator is consumed when it is there
OptSepAt(s, i) ==
    IF i >= 0 /\ i < Len(s) /\ s[i + 1] \in {" ", "-"} THEN i + 1 ELSE i

\* SSN_LIKE = \b\d{3}[ -]?\d{2}[ -]?\d{4}\b matched at offset i of s: the
\* offset after the match, or -1
SSN_LIKE(s, i) ==
    LET a == DigitsAt(s, i, 3)
        b == DigitsAt(s, OptSepAt(s, a), 2)
        c == DigitsAt(s, OptSepAt(s, b), 4)
    IN IF WordBoundary(s, i) /\ a >= 0 /\ b >= 0 /\ c >= 0 /\ WordBoundary(s, c)
       THEN c ELSE -1

RECURSIVE SubFrom(_, _, _)
\* SSN_LIKE.sub(lambda m: deterministic_numeric_like(m.group(0), preserve_last=4), s)
\* from offset i on: the leftmost matches, none overlapping an earlier one
SubFrom(s, i, k) ==
    IF i >= Len(s) THEN <<>>
    ELSE LET e == SSN_LIKE(s, i)
         IN IF e > i
            THEN deterministic_numeric_like(Slice(s, i, e), AccountPreserveLast, k)
                     \o SubFrom(s, e, k)
            ELSE <<s[i + 1]>> \o SubFrom(s, i + 1, k)

SSN_LIKE_sub(s, k) == SubFrom(s, 0, k)

\* obfuscate_row on a field of account_fields, note_fields, id_fields or
\* ssn_fields: the field's rule, then the inline substitution on its result
obfuscate_row_identifier(v, k) ==
    LET obfuscated == obfuscate_account(v, k)
    IN IF obfuscated = None THEN None ELSE SSN_LIKE_sub(obfuscated, k)

\* obfuscate_row on a string field no rule names: the inline substitution only
obfuscate_row_text(v, k) == SSN_LIKE_sub(v, k)

\* identifier values of a row: grouped and ungrouped nine-digit numbers, and
\* numbers SSN_LIKE does not match
IdValues ==
    { <<"1", "1", "7", "-", "7", "1", "-", "1", "7", "7", "1">>,
      <<"7", "1", "7", "1", "7", "1", "7", "1", "7">>,
      <<"1", "7", "1", " ", "1", "7", " ", "7", "1", "1", "7">>,
      <<"1", "1", "7", "7", "-", "1", "-", "1", "7", "7", "1">>,
      <<"1", "7">> }

\* the text before and after an identifier inside another string field
Prefixes == {<<>>, <<"x", " ">>, <<"n", ":">>}

Suffixes == {<<>>, <<" ", "y">>}

\* a row with an identifier field holding value and a string field holding
\* the same identifier inside other text
RowInit ==
    /\ value \in IdValues
    /\ other \in {pre \o value \o suf : pre \in Prefixes, suf \in Suffixes}
    /\ preserve_last = AccountPreserveLast
    /\ env_key \in Keys \cup {None}
    /\ key = PSEUDO_KEY(env_key)
    /\ pseudo = None /\ pseudo_other = None
    /\ config = <<>> /\ trace = <<>> /\ cmds = <<>>
    /\ pc = "row"
    /\ text = <<>> /\ entities = <<>> /\ result = <<>>

ObfuscateRow ==
    /\ pc = "row"
    /\ pseudo' = obfuscate_row_identifier(value, key)
    /\ pseudo_other' = obfuscate_row_text(other, key)
    /\ pc' = "obfuscated"
    /\ UNCHANGED <<rvars, value, other, preserve_last, env_key, key, xvars, cmds>>

RowNext == ObfuscateRow

SpecRow == RowInit /\ [][RowNext]_vars

\* ---------------------------------------------------------------- utils.py
\* A value of the configuration dict: an int, a str, or a key that is missing
\* (n holds an int, s the characters of a str)
IntVal(n) == [kind |-> "int", n |-> n, s |-> <<>>]

StrVal(s) == [kind |-> "str", n |-> 0, s |-> s]

Missing == [kind |-> "missing", n |-> 0, s |-> <<>>]

Max(a, b) == IF a >= b THEN a ELSE b

Min(a, b) == IF a <= b THEN a ELSE b

DigitOf(c) == CHOOSE d \in 0..9 : AsciiDigits[d + 1] = c

RECURSIVE DigitsValue(_, _, _)
DigitsValue(s, i, acc) ==
    IF i > Len(s) THEN acc ELSE DigitsValue(s, i + 1, 10 * acc + DigitOf(s[i]))

\* int(f[key]): <<n>>, or <<>> when it raises (KeyError for a missing key,
\* ValueError for a str that is no integer literal)
int(x) ==
    IF x.kind = "int" THEN <<x.n>>
    ELSE IF x.kind = "str"
    THEN LET t == Strip(x.s)
             neg == t # <<>> /\ t[1] = "-"
             body == IF neg THEN Tail(t) ELSE t
         IN  IF body # <<>> /\ \A i \in 1..Len(body) : IsReDigit(body[i])
             THEN <<(IF neg THEN -1 ELSE 1) * DigitsValue(body, 1, 0)>>
             ELSE <<>>
    ELSE <<>>

RECURSIVE NatStr(_)
NatStr(n) == IF n < 10 THEN <<AsciiDigits[n + 1]>>
             ELSE Append(NatStr(n \div 10), AsciiDigits[(n % 10) + 1])

\* str(v) of a value that is present
str(x) ==
    IF x.kind = "str" THEN x.s
    ELSE IF x.n < 0 THEN <<"-">> \o NatStr(-x.n) ELSE NatStr(x.n)

\* s[a:b] with Python's negative and out-of-range indices
PySlice(s, a, b) ==
    LET lo == IF a < 0 THEN Max(a + Len(s), 0) ELSE Min(a, Len(s))
        hi == IF b < 0 THEN Max(b + Len(s), 0) ELSE Min(b, Len(s))
    IN  IF lo >= hi THEN <<>> ELSE SubSeq(s, lo + 1, hi)

\* str.lstrip()
LStrip(s) ==
    LET keep == {i \in 1..Len(s) : s[i] \notin Whitespace}
    IN  IF keep = {} THEN <<>>
        ELSE SubSeq(s, CHOOSE i \in keep : \A j \in keep : i <= j, Len(s))

\* is_break_line: blank, or only dashes
is_break_line(s) ==
    LET t == Strip(s)
    IN  t = <<>> \/ \A i \in 1..Len(t) : t[i] = "-"

\* offsets[i] for i in 0..n (kept at index i + 1): every line counts its
\* length plus one for the newline
RECURSIVE OffsetOf(_, _)
OffsetOf(lines, i) == IF i = 0 THEN 0 ELSE OffsetOf(lines, i - 1) + Len(lines[i]) + 1

offsets(lines) == [i \in 1..(Len(lines) + 1) |-> OffsetOf(lines, i - 1)]

abs_pos(offs, line_idx, col) == offs[line_idx + 1] + col

\* win_first = max(0, header_skip); win_last = n - max(0, footer_skip)
win_first(header_skip) == Max(0, header_skip)

win_last_IgnoreFooter(n, footer_skip) == n

win_last(n, footer_skip) == n - Max(0, footer_skip)

\* int(f.get("group", 0)), 0 when it raises
GroupOf(f) ==
    LET g == int(IF f.group.kind = "missing" THEN IntVal(0) ELSE f.group)
    IN  IF g = <<>> THEN 0 ELSE g[1]

\* the body of "for f in fields" for one field and one row: the span it
\* appends, with the field and the line it was read from, or nothing
extract_field(lines, offs, f, base_rel, row, wf, wl) ==
    IF f.label.kind = "missing" \/ int(f.line) = <<>> THEN <<>>
    ELSE LET label == Strip(str(f.label))
             rel_line == int(f.line)[1] - base_rel
             line_idx == row + rel_line
         IN  IF line_idx < wf \/ line_idx >= wl THEN <<>>
             ELSE IF int(f.left) = <<>> \/ int(f.right) = <<>> THEN <<>>
             ELSE LET left == int(f.left)[1]
                      right == int(f.right)[1]
                      src == lines[line_idx + 1]
                  IN  IF left >= Len(src) THEN <<>>
                      ELSE LET r == Min(Max(right, left), Len(src))
                               raw == PySlice(src, left, r)
                           IN  IF raw = <<>> THEN <<>>
                               ELSE LET lead == Len(raw) - Len(LStrip(raw))
                                        val == Strip(raw)
                                        start_abs == abs_pos(offs, line_idx, left + lead)
                                        end_abs == start_abs + Len(val)
                                    IN  IF val = <<>> THEN <<>>
                                        ELSE <<[field |-> f, line_idx |-> line_idx,
                                                span |-> [value |-> val, label |-> label,
                                                          start |-> start_abs,
                                                          end |-> end_abs]]>>

\* what one pass over the group's fields appends for the row
RowEmitted(lines, offs, fields, base_rel, row, wf, wl) ==
    Flatten([k \in 1..Len(fields) |->
                extract_field(lines, offs, fields[k], base_rel, row, wf, wl)])

\* lines 223-240: what the loop does after the pass over the fields
row_step_NoBreak(row_added_any, started, broken_here) == "next"

row_step_BreakUnstarted(row_added_any, started, broken_here) ==
    IF row_added_any THEN "next" ELSE "break"

row_step(row_added_any, started, broken_here) ==
    IF row_added_any THEN "next"
    ELSE IF ~started
         THEN (IF broken_here THEN "next" ELSE "next")
         ELSE "break"

\* "while row < win_last": one record per iteration
RECURSIVE RowLoop(_, _, _, _, _, _, _, _, _, _)
RowLoop(lines, offs, g, fields, base_rel, row, started, wf, wl, tr) ==
    IF ~(row < wl) THEN tr
    ELSE LET broken_here == is_break_line(lines[row + 1])
             emitted == RowEmitted(lines, offs, fields, base_rel, row, wf, wl)
             row_added_any == emitted # <<>>
             tr2 == Append(tr, [group |-> g, row |-> row, emitted |-> emitted])
         IN  IF row_step(row_added_any, started, broken_here) = "next"
             THEN RowLoop(lines, offs, g, fields, base_rel, row + 1,
                          started \/ row_added_any, wf, wl, tr2)
             ELSE tr2

MinOf(S) == CHOOSE m \in S : \A x \in S : m <= x

\* one group of the "for g, fields in sorted(groups.items())" loop
GroupTrace(lines, offs, g, fields, wf, wl) ==
    IF fields = <<>> THEN <<>>
    ELSE IF \E k \in 1..Len(fields) : int(fields[k].line) = <<>> THEN <<>>
    ELSE LET base_rel == MinOf({int(fields[k].line)[1] : k \in 1..Len(fields)})
             row == wf + base_rel
         IN  IF row < wf \/ row >= wl THEN <<>>
             ELSE RowLoop(lines, offs, g, fields, base_rel, row, FALSE, wf, wl, <<>>)

FieldsOfGroup(fields, g) == LET Is(f) == GroupOf(f) = g IN SelectSeq(fields, Is)

RECURSIVE GroupsFrom(_, _, _, _, _, _, _)
GroupsFrom(lines, offs, fields, gs, wf, wl, tr) ==
    IF gs = {} THEN tr
    ELSE LET g == MinOf(gs)
         IN  GroupsFrom(lines, offs, fields, gs \ {g}, wf, wl,
                        tr \o GroupTrace(lines, offs, g, FieldsOfGroup(fields, g), wf, wl))

\* the iterations extract_spans_from_smart_config runs, group by group
extract_trace(t, cfg) ==
    LET lines == splitlines(t)
        n == Len(lines)
        wf == win_first(cfg.header_skip)
        wl == win_last(n, cfg.footer_skip)
        gs == {GroupOf(cfg.fields[k]) : k \in 1..Len(cfg.fields)}
    IN  GroupsFrom(lines, offsets(lines), cfg.fields, gs, wf, wl, <<>>)

\* the entities list of a run
SpansOf(tr) ==
    LET em == Flatten([i \in 1..Len(tr) |-> tr[i].emitted])
    IN  [i \in 1..Len(em) |-> em[i].span]

extract_spans_from_smart_config(t, cfg) == SpansOf(extract_trace(t, cfg))

\* documents: rows around a blank row; a blank anchor row before indented
\* rows; a dashed row; rows that all yield; the empty text
XTexts == {
    <<"a", "b", "\n", "\n", "a", "b">>,
    <<"\n", " ", "a", "\n", "a", "b">>,
    <<"a", " ", "\n", "-", "-", "\n", "b">>,
    <<"a", "b", "\n", "a", "b", "\n", "a", "b", "\n">>,
    <<>> }

Field(label, group, line, left, right) ==
    [label |-> label, group |-> group, line |-> line, left |-> left, right |-> right]

LabelA == StrVal(<<"A">>)

\* well-formed fields: two groups, two relative lines, windows that start
\* inside the line, at a negative column, and with right < left
WellFormedFields == {
    Field(LabelA, IntVal(0), IntVal(0), IntVal(0), IntVal(2)),
    Field(StrVal(<<"B">>), IntVal(0), IntVal(0), IntVal(1), IntVal(2)),
    Field(LabelA, IntVal(0), IntVal(1), IntVal(0), IntVal(1)),
    Field(LabelA, IntVal(1), IntVal(0), IntVal(0), IntVal(2)),
    Field(LabelA, IntVal(0), IntVal(0), IntVal(-1), IntVal(2)),
    Field(LabelA, IntVal(0), IntVal(0), IntVal(1), IntVal(0)) }

\* fields with a missing or wrongly typed key
MalformedFields == {
    Field(Missing, IntVal(0), IntVal(0), IntVal(0), IntVal(2)),
    Field(LabelA, IntVal(0), Missing, IntVal(0), IntVal(2)),
    Field(LabelA, IntVal(0), IntVal(0), StrVal(<<"x">>), IntVal(2)),
    Field(IntVal(5), IntVal(0), IntVal(0), IntVal(0), IntVal(1)),
    Field(LabelA, StrVal(<<"x">>), IntVal(0), StrVal(<<"1">>), IntVal(2)) }

Configs ==
    [header_skip : {0, 1}, footer_skip : {-1, 0, 1},
     fields : SeqsUpTo(WellFormedFields \cup MalformedFields, MaxFields)]

XInit ==
    /\ text \in XTexts
    /\ config \in Configs
    /\ trace = <<>> /\ result = <<>>
    /\ pc = "config"
    /\ entities = <<>> /\ cmds = <<>>
    /\ value = <<>> /\ other = <<>> /\ preserve_last = 0 /\ env_key = None /\ key = <<>>
    /\ pseudo = None /\ pseudo_other = None

\* entities = extract_spans_from_smart_config(text, config)
Extract ==
    /\ pc = "config"
    /\ trace' = extract_trace(text, config)
    /\ result' = SpansOf(trace')
    /\ pc' = "extracted"
    /\ UNCHANGED <<text, entities, pvars, config, cmds>>

XNext == Extract

SpecExtract == XInit /\ [][XNext]_vars

\* ---------------------------------------------------------------- review loop
\* str.lower() on the characters the model uses
LowerChar(c) ==
    CASE c = "A" -> "a"
      [] c = "B" -> "b"
      [] c = "E" -> "e"
      [] c = "L" -> "l"
      [] c = "S" -> "s"
      [] c = "X" -> "x"
      [] OTHER -> c

Lower(s) == [i \in 1..Len(s) |-> LowerChar(s[i])]

StartsWith(s, p) == Len(s) >= Len(p) /\ SubSeq(s, 1, Len(p)) = p

\* str.split(): the maximal runs of non-whitespace characters
RECURSIVE SplitWs(_, _, _, _)
SplitWs(s, i, cur, acc) ==
    IF i > Len(s) THEN (IF cur = <<>> THEN acc ELSE Append(acc, cur))
    ELSE IF s[i] \in Whitespace
         THEN SplitWs(s, i + 1, <<>>, IF cur = <<>> THEN acc ELSE Append(acc, cur))
         ELSE SplitWs(s, i + 1, Append(cur, s[i]), acc)

split(s) == SplitWs(s, 1, <<>>, <<>>)

\* lines 101-104: the span after "e START END" was accepted
apply_edit_StaleValue(t, e, s, ed) ==
    LET lp == compute_line_position(t, s, ed)
    IN  [e EXCEPT !.start = s, !.end = ed,
                  !.line_number = lp[1], !.left = lp[2], !.right = lp[3]]

apply_edit(t, e, s, ed) ==
    LET lp == compute_line_position(t, s, ed)
    IN  [e EXCEPT !.start = s, !.end = ed,
                  !.line_number = lp[1], !.left = lp[2], !.right = lp[3],
                  !.value = Slice(t, s, ed)]

\* one iteration of the review loop for span e and the line typed for it:
\* what is appended to final, and whether the loop is left
review_step_SkipGoesOn(t, e, typed) ==
    LET cmd == Strip(typed)
        low == Lower(cmd)
        nothing == [keep |-> <<>>, stop |-> FALSE]
    IN  IF cmd = <<>> THEN [keep |-> <<e>>, stop |-> FALSE]
        ELSE IF low = <<"x">> THEN nothing
        ELSE IF StartsWith(low, <<"l", " ">>)
        THEN [keep |-> <<[e EXCEPT !.label = sanitize_label(Strip(SubSeq(cmd, 3, Len(cmd))))]>>,
              stop |-> FALSE]
        ELSE IF StartsWith(low, <<"e", " ">>)
        THEN LET parts == split(cmd)
             IN  IF Len(parts) # 3 THEN nothing
                 ELSE LET s == int(StrVal(parts[2]))
                          ed == int(StrVal(parts[3]))
                      IN  IF s = <<>> \/ ed = <<>> THEN nothing
                          ELSE IF within(t, s[1], ed[1])
                          THEN [keep |-> <<apply_edit(t, e, s[1], ed[1])>>, stop |-> FALSE]
                          ELSE nothing
        ELSE nothing

review_step_InvalidKeeps(t, e, typed) ==
    LET cmd == Strip(typed)
        low == Lower(cmd)
        nothing == [keep |-> <<>>, stop |-> FALSE]
    IN  IF cmd = <<>> THEN [keep |-> <<e>>, stop |-> FALSE]
        ELSE IF low = <<"x">> THEN nothing
        ELSE IF StartsWith(low, <<"l", " ">>)
        THEN [keep |-> <<[e EXCEPT !.label = sanitize_label(Strip(SubSeq(cmd, 3, Len(cmd))))]>>,
              stop |-> FALSE]
        ELSE IF StartsWith(low, <<"e", " ">>)
        THEN LET parts == split(cmd)
             IN  IF Len(parts) # 3 THEN nothing
                 ELSE LET s == int(StrVal(parts[2]))
                          ed == int(StrVal(parts[3]))
                      IN  IF s = <<>> \/ ed = <<>> THEN nothing
                          ELSE IF within(t, s[1], ed[1])
                          THEN [keep |-> <<apply_edit(t, e, s[1], ed[1])>>, stop |-> FALSE]
                          ELSE [keep |-> <<e>>, stop |-> FALSE]
        ELSE IF low = <<"s">> THEN [keep |-> <<>>, stop |-> TRUE]
        ELSE nothing

review_step(t, e, typed) ==
    LET cmd == Strip(typed)
        low == Lower(cmd)
        nothing == [keep |-> <<>>, stop |-> FALSE]
    IN  IF cmd = <<>> THEN [keep |-> <<e>>, stop |-> FALSE]
        ELSE IF low = <<"x">> THEN nothing
        ELSE IF StartsWith(low, <<"l", " ">>)
        THEN [keep |-> <<[e EXCEPT !.label = sanitize_label(Strip(SubSeq(cmd, 3, Len(cmd))))]>>,
              stop |-> FALSE]
        ELSE IF StartsWith(low, <<"e", " ">>)
        THEN LET parts == split(cmd)
             IN  IF Len(parts) # 3 THEN nothing
                 ELSE LET s == int(StrVal(parts[2]))
                          ed == int(StrVal(parts[3]))
                      IN  IF s = <<>> \/ ed = <<>> THEN nothing
                          ELSE IF within(t, s[1], ed[1])
                          THEN [keep |-> <<apply_edit(t, e, s[1], ed[1])>>, stop |-> FALSE]
                          ELSE nothing
        ELSE IF low = <<"s">> THEN [keep |-> <<>>, stop |-> TRUE]
        ELSE nothing

\* "for i, e in enumerate(clean, 1)": typed[i] is the line read for clean[i]
RECURSIVE ReviewFrom(_, _, _, _, _)
ReviewFrom(t, clean, typed, i, final) ==
    IF i > Len(clean) THEN final
    ELSE LET st == review_step(t, clean[i], typed[i])
         IN  IF st.stop THEN final
             ELSE ReviewFrom(t, clean, typed, i + 1, final \o st.keep)

collect_user_feedback_NoFinalDedupe(t, ents, typed) ==
    ReviewFrom(t, Reconciled(t, ents), typed, 1, <<>>)

collect_user_feedback(t, ents, typed) ==
    dedupe_overlaps(ReviewFrom(t, Reconciled(t, ents), typed, 1, <<>>))

\* the same run on spans that carry their position in the presented list
Tag(e, i) ==
    [start |-> e.start, end |-> e.end, label |-> e.label, line_number |-> e.line_number,
     left |-> e.left, right |-> e.right, value |-> e.value, src |-> i]

Untag(e) ==
    [start |-> e.start, end |-> e.end, label |-> e.label, line_number |-> e.line_number,
     left |-> e.left, right |-> e.right, value |-> e.value]

RECURSIVE ReviewTaggedFrom(_, _, _, _, _)
ReviewTaggedFrom(t, clean, typed, i, final) ==
    IF i > Len(clean) THEN final
    ELSE LET st == review_step(t, clean[i], typed[i])
         IN  IF st.stop THEN final
             ELSE ReviewTaggedFrom(t, clean, typed, i + 1,
                                   final \o [k \in 1..Len(st.keep) |-> Tag(st.keep[k], i)])

\* candidates of a review: spans of two labels, one that carries its own
\* value, one out of bounds
ReviewCands(t) ==
    {Cand("record", None, <<"A">>, 0, 1),
     Cand("record", <<"z">>, <<"A">>, 2, 3),
     Cand("record", None, <<"A">>, 3, 4),
     Cand("record", None, <<"B">>, 2, 4),
     Cand("record", None, <<"A">>, 2, 1)}

\* lines typed at the prompt: confirm, exclude, relabel, edits (accepted, out
\* of bounds, wrong usage), skip, anything else
TypedLines == {
    <<>>,
    <<"X">>,
    <<"l", " ", "b">>,
    <<"e", " ", "2", " ", "4">>,
    <<"e", " ", "0", " ", "1", " ">>,
    <<"e", " ", "3", " ", "9">>,
    <<"e", " ", "1">>,
    <<"s">>,
    <<"l">> }

VInit ==
    /\ text \in Texts
    /\ entities \in SeqsUpTo(ReviewCands(text), MaxReviewEnts)
    /\ cmds \in [1..Len(Reconciled(text, entities)) -> TypedLines]
    /\ trace = <<>> /\ result = <<>>
    /\ pc = "review"
    /\ config = <<>>
    /\ value = <<>> /\ other = <<>> /\ preserve_last = 0 /\ env_key = None /\ key = <<>>
    /\ pseudo = None /\ pseudo_other = None

\* collect_user_feedback(text, entities) with the lines cmds typed
Review ==
    /\ pc = "review"
    /\ result' = collect_user_feedback(text, entities, cmds)
    /\ trace' = dedupe_overlaps(ReviewTaggedFrom(text, Reconciled(text, entities), cmds, 1, <<>>))
    /\ pc' = "reviewed"
    /\ UNCHANGED <<text, entities, pvars, config, cmds>>

VNext == Review

SpecReview == VInit /\ [][VNext]_vars

\* ---------------------------------------------------------------- labels
\* labels a producer supplies: letters of both cases, space, hyphen, tab
Labels == SeqsUpTo({"a", "B", " ", "-", "\t"}, MaxLabelLen)

\* labels typed after "l "
RelabelLines == {
    <<"l", " ", "b">>,
    <<"l", " ", "a", " ", "b">>,
    <<"L", " ", "a", "-", "b", " ">>,
    <<"l", " ", "a", "\t", "b">> }

\* one candidate over the first character of the text, under every label
LInit ==
    /\ text \in Texts
    /\ \E l \in Labels : entities = <<Cand("record", None, l, 0, 1)>>
    /\ cmds \in [1..1 -> RelabelLines]
    /\ trace = <<>> /\ result = <<>>
    /\ pc = "label"
    /\ config = <<>>
    /\ value = <<>> /\ other = <<>> /\ preserve_last = 0 /\ env_key = None /\ key = <<>>
    /\ pseudo = None /\ pseudo_other = None

\* [x for x in (normalize_entity(text, e) for e in entities) if x]
NormalizeLabelled ==
    /\ pc = "label"
    /\ result' = NormalizeAll(text, entities)
    /\ pc' = "normalized"
    /\ UNCHANGED <<text, entities, pvars, xvars, cmds>>

\* collect_user_feedback with an "l NEWLABEL" line typed for the span
Relabel ==
    /\ pc = "normalized"
    /\ result' = collect_user_feedback(text, entities, cmds)
    /\ pc' = "relabelled"
    /\ UNCHANGED <<text, entities, pvars, xvars, cmds>>

LNext == NormalizeLabelled \/ Relabel

SpecLabel == LInit /\ [][LNext]_vars

\* ---------------------------------------------------------------- line positions
\* texts with "\n", "\r" and "\r\n" line ends, blank lines, a trailing line end
LineTexts == {
    <<"a", "\n", "a", "a">>,
    <<"a", "b", "\n">>,
    <<"\n", "\n", "a">>,
    <<"a", "\r", "b">>,
    <<"a", "\r", "\n", "b">>,
    <<"a", "\r", "\n", "\r", "\n">>,
    <<"a", "b", "\r", "\n", "a">> }

\* one candidate, over every span with 0 <= start < end <= len(text)
PInitLines ==
    /\ text \in LineTexts
    /\ \E s \in 0..(Len(text) - 1) : \E e \in (s + 1)..Len(text) :
           entities = <<Cand("record", None, <<"A">>, s, e)>>
    /\ cmds = <<>> /\ trace = <<>> /\ result = <<>>
    /\ pc = "span"
    /\ config = <<>>
    /\ value = <<>> /\ other = <<>> /\ preserve_last = 0 /\ env_key = None /\ key = <<>>
    /\ pseudo = None /\ pseudo_other = None

\* normalize_entity(text, ent), which calls compute_line_position
NormalizeSpan ==
    /\ pc = "span"
    /\ result' = NormalizeAll(text, entities)
    /\ pc' = "positioned"
    /\ UNCHANGED <<text, entities, pvars, xvars, cmds>>

PNextLines == NormalizeSpan

SpecLines == PInitLines /\ [][PNextLines]_vars

\* ---------------------------------------------------------------- span cleaning
\* a tuple of the merged list: arity is its length, record its fifth item
Tuple(arity, l, s, e, rec) ==
    [arity |-> arity, value |-> <<>>, label |-> l, start |-> s, end |-> e, record |-> rec]

\* the (text, label, start, end, record) tuple appended for ent
Cleaned(ent) ==
    [value |-> ent.value, label |-> ent.label, start |-> ent.start, end |-> ent.end,
     record |-> IF ent.arity = 5 THEN ent.record ELSE <<>>]

\* the unpacking of lines 21-25 succeeds
Unpacks(ent) == ent.arity \in {4, 5}

\* one pass of the loop body: the tuple is skipped when it does not unpack,
\* when its (start, end) was seen, or when it overlaps a tuple of cleaned
clean_step_SeenOnly(cleaned, ent) ==
    IF ~Unpacks(ent) THEN cleaned
    ELSE IF \E k \in 1..Len(cleaned) :
                cleaned[k].start = ent.start /\ cleaned[k].end = ent.end
         THEN cleaned
    ELSE Append(cleaned, Cleaned(ent))

clean_step(cleaned, ent) ==
    IF ~Unpacks(ent) THEN cleaned
    ELSE IF \E k \in 1..Len(cleaned) :
                cleaned[k].start = ent.start /\ cleaned[k].end = ent.end
         THEN cleaned
    ELSE IF \E k \in 1..Len(cleaned) :
                ~(ent.end <= cleaned[k].start \/ ent.start >= cleaned[k].end)
         THEN cleaned
    ELSE Append(cleaned, Cleaned(ent))

RECURSIVE CleanFrom(_, _, _)
CleanFrom(ents, i, cleaned) ==
    IF i > Len(ents) THEN cleaned
    ELSE CleanFrom(ents, i + 1, clean_step(cleaned, ents[i]))

clean_entity_spans(ents) == CleanFrom(ents, 1, <<>>)

CleanTextLen == 4

\* the merged tuples of extract_entities: every valid span under label A, two
\* under label B, a five-item tuple, an empty span and a three-item tuple
CleanCands ==
    {Tuple(4, <<"A">>, s, e, <<>>) : s \in 0..(CleanTextLen - 1), e \in 1..CleanTextLen}
    \cup {Tuple(4, <<"B">>, 1, 2, <<>>), Tuple(4, <<"B">>, 0, CleanTextLen, <<>>),
          Tuple(5, <<"A">>, 1, 3, <<"r">>),
          Tuple(4, <<"A">>, 2, 2, <<>>),
          Tuple(3, <<"A">>, 0, 1, <<>>)}

CInit ==
    /\ entities \in SeqsUpTo({c \in CleanCands : c.start <= c.end}, MaxCleanEnts)
    /\ pc = "merged list"
    /\ text = <<>> /\ result = <<>>
    /\ value = <<>> /\ other = <<>> /\ preserve_last = 0 /\ env_key = None /\ key = <<>>
    /\ pseudo = None /\ pseudo_other = None
    /\ config = <<>> /\ trace = <<>> /\ cmds = <<>>

CleanEntitySpans ==
    /\ pc = "merged list"
    /\ result' = clean_entity_spans(entities)
    /\ pc' = "cleaned"
    /\ UNCHANGED <<text, entities, pvars, xvars, cmds>>

CNext == CleanEntitySpans

SpecClean == CInit /\ [][CNext]_vars

\* ---------------------------------------------------------------- properties
Intersects(a, b) == ~(a.end <= b.start \/ a.start >= b.end)

InResult(c) == \E k \in 1..Len(result) : SameSpan(c, result[k])

\* the candidates that pass normalize_entity, in input order
Clean == NormalizeAll(text, entities)

BoundsInvalid(c) == ~(0 <= c.start /\ c.start < c.end /\ c.end <= Len(text))

OfLabel(seq, l) == LET Is(o) == o.label = l IN SelectSeq(seq, Is)

CandsOfLabel(l) == LET Is(c) == sanitize_label(c.label) = l IN SelectSeq(entities, Is)

\* C1: the list returned by dedupe_overlaps, _merge_and_dedupe and
\* trainer._dedupe_overlaps holds no two distinct entries with the same label
\* and intersecting ranges, and no two entries with the same (start, end, label).
C1_NoSameLabelOverlap ==
    pc \in {"reconciled", "merged", "trained"} =>
        \A i, j \in 1..Len(result) :
            i # j => /\ ~(result[i].label = result[j].label /\ Intersects(result[i], result[j]))
                     /\ ~SameSpan(result[i], result[j])

C1_Witness ==
    LET cl == Clean
    IN
        /\ pc = "reconciled"
        /\ Len(result) = 2
        /\ \E i, j \in 1..Len(cl) :
               i # j /\ cl[i].label = cl[j].label /\ Intersects(cl[i], cl[j])

\* C2 as stated: of two valid same-label candidates with intersecting ranges
\* and different widths, the narrower one is never in the output of
\* dedupe_overlaps.
C2_NarrowerNeverSurvives ==
    LET cl == Clean
    IN
        pc = "reconciled" =>
            \A i, j \in 1..Len(cl) :
                (/\ cl[i].label = cl[j].label
                 /\ Intersects(cl[i], cl[j])
                 /\ Width(cl[i]) < Width(cl[j])) => ~InResult(cl[i])

\* C2 amended: the two never both survive; when the narrower one is in the
\* output, the wider one is not, and the output holds a span of the same label
\* that intersects the wider one and is at least as wide as it.
C2_NarrowerOnlyIfWiderDisplaced ==
    LET cl == Clean
    IN
        pc = "reconciled" =>
            \A i, j \in 1..Len(cl) :
                (/\ cl[i].label = cl[j].label
                 /\ Intersects(cl[i], cl[j])
                 /\ Width(cl[i]) < Width(cl[j])
                 /\ InResult(cl[i]))
                => /\ ~InResult(cl[j])
                   /\ \E k \in 1..Len(result) :
                          /\ result[k].label = cl[j].label
                          /\ Intersects(result[k], cl[j])
                          /\ Width(result[k]) >= Width(cl[j])

C2_Witness ==
    LET cl == Clean
    IN
        /\ pc = "reconciled"
        /\ \E i, j \in 1..Len(cl) :
               /\ cl[i].label = cl[j].label
               /\ Intersects(cl[i], cl[j])
               /\ Width(cl[i]) < Width(cl[j])
               /\ InResult(cl[i])
               /\ ~InResult(cl[j])

\* C3: the list returned by dedupe_overlaps is ordered by start ascending.
C3_SortedByStart ==
    pc = "reconciled" =>
        \A i \in 1..(Len(result) - 1) : result[i].start <= result[i + 1].start

\* C4: the output of dedupe_overlaps restricted to a label equals the
\* reconciliation of the candidates of that label alone, and a valid candidate
\* that is the only one of its label is retained.
C4_CrossLabelIndependence ==
    LET cl == Clean
    IN
        pc = "reconciled" =>
            /\ \A l \in {<<"A">>, <<"B">>} :
                   OfLabel(result, l) = Reconciled(text, CandsOfLabel(l))
            /\ \A i \in 1..Len(cl) :
                   (\A j \in 1..Len(cl) : j # i => cl[j].label # cl[i].label)
                   => InResult(cl[i])

C4_Witness ==
    /\ pc = "reconciled"
    /\ \E i, j \in 1..Len(result) :
           /\ result[i].label # result[j].label
           /\ Intersects(result[i], result[j])

\* C5: when two same-label candidates of equal width intersect (and no other
\* candidate has that label), the one with the earlier start is the one kept.
C5_TieKeepsEarlierStart ==
    LET cl == Clean
    IN
        pc = "reconciled" =>
            \A i, j \in 1..Len(cl) :
                (/\ cl[i].label = cl[j].label
                 /\ Intersects(cl[i], cl[j])
                 /\ Width(cl[i]) = Width(cl[j])
                 /\ cl[i].start < cl[j].start
                 /\ \A k \in 1..Len(cl) :
                        cl[k].label = cl[i].label => k \in {i, j})
                => InResult(cl[i]) /\ ~InResult(cl[j])

\* C6: a candidate with start >= end, start < 0 or end > len(text) is dropped
\* by normalize_entity, and the reconciled result of the batch equals the
\* reconciled result of the batch without that candidate.
C6_InvalidDropped ==
    pc = "reconciled" =>
        \A i \in 1..Len(entities) :
            BoundsInvalid(entities[i]) =>
                /\ normalize_entity(text, entities[i]) = <<>>
                /\ result = Reconciled(text, RemoveIdx(entities, {i}))

C6_Witness ==
    /\ pc = "reconciled"
    /\ Len(result) >= 1
    /\ \E i \in 1..Len(entities) :
           entities[i].shape = "record" /\ entities[i].end > Len(text)

\* C7: what reconciliation returns to its caller carries a rejection counter:
\* the value returned for a batch holding an invalid candidate differs from
\* the value returned for the same batch without it (the counter is one more).
C7_RejectionCounted ==
    pc = "reconciled" =>
        \A i \in 1..Len(entities) :
            BoundsInvalid(entities[i]) =>
                result # Reconciled(text, RemoveIdx(entities, {i}))

\* number of \d positions of s at index i or later
DigitsFrom(s, i) == Cardinality({j \in i..Len(s) : IsReDigit(s[j])})

\* C8: deterministic_numeric_like returns a string of the same length as the
\* value, with every non-digit character at its index and a digit at every
\* digit position.
C8_FormatPreserved ==
    pc \in {"first", "done"} =>
        /\ pseudo # IndexError
        /\ Len(pseudo) = Len(value)
        /\ \A i \in 1..Len(value) :
               /\ ~IsDigit(value[i]) => pseudo[i] = value[i]
               /\ IsReDigit(value[i]) => IsReDigit(pseudo[i])

\* C9: when 0 < preserve_last < digit_count, the last preserve_last digit
\* positions of the returned string hold the digits the input has there.
C9_TailPreserved ==
    (/\ pc \in {"first", "done"}
     /\ pseudo # IndexError
     /\ 0 < preserve_last
     /\ preserve_last < Len(Digits(value)))
    => \A i \in 1..Len(value) :
           (IsReDigit(value[i]) /\ DigitsFrom(value, i) <= preserve_last)
           => pseudo[i] = value[i]

C9_Witness ==
    /\ pc = "first"
    /\ pseudo # IndexError
    /\ 0 < preserve_last
    /\ preserve_last < Len(Digits(value))
    /\ pseudo # value
    /\ \E i \in 1..Len(value) : value[i] = "-"

\* C10: two values with the same digit sequence, pseudonymized with the same
\* preserve_last and key, give outputs with the same digit sequence; the same
\* value gives the same string.
C10_FormattingIndependent ==
    (pc = "done" /\ pseudo # IndexError /\ pseudo_other # IndexError)
    => /\ Digits(pseudo) = Digits(pseudo_other)
       /\ value = other => pseudo = pseudo_other

C10_Witness ==
    /\ pc = "done"
    /\ pseudo # IndexError /\ pseudo_other # IndexError
    /\ value # other
    /\ Len(Digits(value)) >= 2
    /\ pseudo # value

\* the characters of a digit stream
StreamChars(stream) == [j \in 1..Len(stream) |-> AsciiDigits[stream[j] + 1]]

C12_MissingKeyRefused ==
    (pc \in {"first", "done", "account"} /\ env_key = None)
    => /\ pseudo = <<"MissingPseudoKey">>
       /\ key # DefaultKey

\* every key the program can run under
AllKeys == Keys \cup {DefaultKey}

\* C13 as stated: a value with at least one digit, pseudonymized with
\* preserve_last = 0 under two different keys, gives two different outputs.
C13_KeySensitive ==
    (/\ pc \in {"first", "done"}
     /\ preserve_last = 0
     /\ Len(Digits(value)) >= 1
     /\ pseudo # IndexError)
    => \A k2 \in AllKeys \ {key} : deterministic_numeric_like(value, 0, k2) # pseudo

\* C13 amended: under two different keys the outputs for preserve_last = 0
\* differ exactly when the two keys' digit streams for the value's digit
\* sequence differ; two different keys can give the same output.
C13_DiffersIffStreamsDiffer ==
    LET digits == Digits(value)
        mine == pseudo_digit_stream(key, digits, Len(digits))
    IN
        (/\ pc \in {"first", "done"}
         /\ preserve_last = 0
         /\ Len(digits) >= 1
         /\ pseudo # IndexError)
        => \A k2 \in AllKeys \ {key} :
               (deterministic_numeric_like(value, 0, k2) # pseudo)
               <=> (pseudo_digit_stream(k2, digits, Len(digits)) # mine)

C13_Witness ==
    /\ pc = "first"
    /\ preserve_last = 0
    /\ Len(Digits(value)) >= 1
    /\ pseudo # IndexError
    /\ \E k2 \in AllKeys \ {key} : deterministic_numeric_like(value, 0, k2) = pseudo
    /\ \E k2 \in AllKeys \ {key} : deterministic_numeric_like(value, 0, k2) # pseudo

\* the offset in t of the first character of line i (0-based), read off the
\* text itself
LineStart(t, i) ==
    IF i = 0 THEN 0
    ELSE CHOOSE p \in 1..Len(t) :
             t[p] = "\n" /\ Cardinality({q \in 1..p : t[q] = "\n"}) = i

\* the active window of the run: lines ActiveFirst .. ActiveLast - 1
ActiveFirst == IF config.header_skip > 0 THEN config.header_skip ELSE 0

ActiveLast ==
    Len(splitlines(text)) - (IF config.footer_skip > 0 THEN config.footer_skip ELSE 0)

\* the trace records of group g, in order
OfGroup(g) == LET Is(r) == r.group = g IN SelectSeq(trace, Is)

TraceGroups == {trace[i].group : i \in 1..Len(trace)}

\* C14: every span emitted by extract_spans_from_smart_config has
\* 0 <= start < end <= len(text), a non-empty value without surrounding
\* whitespace that equals text[start:end], and lies inside the column window
\* [left, right) of its field on one line of the active window.
C14_SpansInsideWindow ==
    pc = "extracted" =>
        \A i \in 1..Len(trace) : \A k \in 1..Len(trace[i].emitted) :
            LET e == trace[i].emitted[k]
                sp == e.span
                ls == LineStart(text, e.line_idx)
            IN  /\ 0 <= sp.start /\ sp.start < sp.end /\ sp.end <= Len(text)
                /\ sp.value # <<>> /\ Strip(sp.value) = sp.value
                /\ sp.value = Slice(text, sp.start, sp.end)
                /\ ActiveFirst <= e.line_idx /\ e.line_idx < ActiveLast
                /\ ls + int(e.field.left)[1] <= sp.start
                /\ sp.end <= ls + int(e.field.right)[1]

\* whether the fields of group g, anchored at physical row r, yield a value
YieldsAt(g, r) ==
    LET lines == splitlines(text)
        fields == FieldsOfGroup(config.fields, g)
        base_rel == MinOf({int(fields[k].line)[1] : k \in 1..Len(fields)})
    IN  RowEmitted(lines, offsets(lines), fields, base_rel, r, ActiveFirst, ActiveLast) # <<>>

\* C15: once a group has emitted a span, the first later row that yields no
\* value for any of its fields ends the group's repetition: rows are visited
\* one after the other and no row after that one is visited, so no span
\* comes from it or from a later row.
C15_FirstEmptyRowEndsGroup ==
    pc = "extracted" =>
        \A g \in TraceGroups :
            LET tr == OfGroup(g)
            IN  /\ \A i \in 1..(Len(tr) - 1) : tr[i + 1].row = tr[i].row + 1
                /\ \A i, j \in 1..Len(tr) :
                       (i < j /\ tr[i].emitted # <<>> /\ tr[j].emitted = <<>>)
                       => j = Len(tr)

C15_Witness ==
    /\ pc = "extracted"
    /\ \E g \in TraceGroups :
           LET tr == OfGroup(g)
           IN  /\ Len(tr) >= 2
               /\ tr[1].emitted # <<>>
               /\ tr[Len(tr)].emitted = <<>>
               /\ \E r \in (tr[Len(tr)].row + 1)..(ActiveLast - 1) : YieldsAt(g, r)

\* C16 as stated: a group whose anchor row yields no value emits no span.
C16_BlankAnchorNoSpans ==
    pc = "extracted" =>
        \A g \in TraceGroups :
            LET tr == OfGroup(g)
            IN  tr[1].emitted = <<>> => \A i \in 1..Len(tr) : tr[i].emitted = <<>>

\* C16 amended: a group whose anchor row yields no value skips it and every
\* following row that yields nothing, and starts at the first later row of
\* the window that yields a value; it emits no span only when no row from the
\* anchor to the end of the window yields one.
C16_BlankAnchorSkipped ==
    pc = "extracted" =>
        \A g \in TraceGroups :
            LET tr == OfGroup(g)
                anchor == tr[1].row
                producing == {r \in anchor..(ActiveLast - 1) : YieldsAt(g, r)}
            IN  tr[1].emitted = <<>> =>
                    IF producing = {}
                    THEN /\ Len(tr) = ActiveLast - anchor
                         /\ \A i \in 1..Len(tr) : tr[i].emitted = <<>>
                    ELSE LET first == MinOf(producing)
                         IN  /\ Len(tr) > first - anchor
                             /\ \A i \in 1..(first - anchor) : tr[i].emitted = <<>>
                             /\ tr[first - anchor + 1].row = first
                             /\ tr[first - anchor + 1].emitted # <<>>

C16_Witness ==
    /\ pc = "extracted"
    /\ \E g \in TraceGroups :
           LET tr == OfGroup(g)
           IN  /\ tr[1].emitted = <<>>
               /\ is_break_line(splitlines(text)[tr[1].row + 1])
               /\ \E i \in 1..Len(tr) : tr[i].emitted # <<>>

\* a field with its four keys present and of the documented types
WellFormed(f) ==
    /\ f.label.kind = "str"
    /\ f.line.kind = "int" /\ f.left.kind = "int" /\ f.right.kind = "int"

\* C17: a field whose label, line, left or right is missing or wrongly typed
\* is skipped, and the run returns what it returns for the configuration
\* without the malformed fields.
C17_MalformedFieldSkipped ==
    pc = "extracted" =>
        result = extract_spans_from_smart_config(
                     text, [config EXCEPT !.fields = SelectSeq(@, WellFormed)])

\* C18: the row loop of every group runs at most as many iterations as the
\* active window has lines.
C18_RowLoopBounded ==
    pc = "extracted" =>
        \A g \in TraceGroups : Len(OfGroup(g)) <= ActiveLast - ActiveFirst

C18_Witness ==
    /\ pc = "extracted"
    /\ \E g \in TraceGroups :
           LET tr == OfGroup(g)
           IN  /\ Len(tr) >= 3
               /\ Len(tr) = ActiveLast - ActiveFirst
               /\ \A i \in 1..Len(tr) : tr[i].emitted # <<>>

\* the spans presented in the review
ReviewClean == Reconciled(text, entities)

\* <<START, END>> of a typed line "e START END", <<>> for any other line
EditArgs(typed) ==
    LET cmd == Strip(typed)
        parts == split(cmd)
    IN  IF /\ StartsWith(Lower(cmd), <<"e", " ">>)
           /\ Len(parts) = 3
           /\ int(StrVal(parts[2])) # <<>>
           /\ int(StrVal(parts[3])) # <<>>
        THEN <<int(StrVal(parts[2]))[1], int(StrVal(parts[3]))[1]>>
        ELSE <<>>

\* what the output holds of the i-th presented span
OutputOf(i) ==
    LET Is(r) == r.src = i
        mine == SelectSeq(trace, Is)
    IN  [k \in 1..Len(mine) |-> Untag(mine[k])]

\* the review of the i-th presented span alone, with its own typed line
Alone(cl, i) == ReviewFrom(text, <<cl[i]>>, <<cmds[i]>>, 1, <<>>)

\* C19: a span edited with 0 <= new_start < new_end <= len(text) that is in
\* the review output has the new offsets, its label unchanged, the value
\* text[new_start:new_end] and the line_number/left/right that
\* compute_line_position gives for the new offsets.
C19_EditRecomputes ==
    LET cl == ReviewClean
    IN
        pc = "reviewed" =>
            /\ result = [k \in 1..Len(trace) |-> Untag(trace[k])]
            /\ \A k \in 1..Len(trace) :
                   LET r == trace[k]
                       a == EditArgs(cmds[r.src])
                   IN  (a # <<>> /\ 0 <= a[1] /\ a[1] < a[2] /\ a[2] <= Len(text))
                       => /\ r.start = a[1] /\ r.end = a[2]
                          /\ r.label = cl[r.src].label
                          /\ r.value = Slice(text, a[1], a[2])
                          /\ <<r.line_number, r.left, r.right>>
                                 = compute_line_position(text, a[1], a[2])

C19_Witness ==
    LET cl == ReviewClean
    IN
        /\ pc = "reviewed"
        /\ \E k \in 1..Len(trace) :
               LET r == trace[k]
                   a == EditArgs(cmds[r.src])
               IN  /\ a # <<>> /\ r.start = a[1] /\ r.end = a[2]
                   /\ r.start # cl[r.src].start
                   /\ r.line_number # cl[r.src].line_number
                   /\ r.value # cl[r.src].value

Canonical(l) ==
    \A i \in 1..Len(l) : l[i] \notin Whitespace /\ l[i] # "-" /\ l[i] = UpperChar(l[i])

\* C21: sanitize_label returns a label without whitespace, hyphen or
\* lower-case letter, and every span of normalize_entity and every relabelled
\* span carries such a label.
C21_LabelCanonical ==
    pc \in {"normalized", "relabelled"} =>
        /\ Canonical(sanitize_label(entities[1].label))
        /\ \A k \in 1..Len(result) : Canonical(result[k].label)

\* the offsets in t at which its lines start, read off the text: 0, and the
\* offset after every line end that is followed by a character
RECURSIVE LineStartsFrom(_, _, _)
LineStartsFrom(t, i, acc) ==
    IF i > Len(t) THEN acc
    ELSE IF t[i] = "\r" /\ i < Len(t) /\ t[i + 1] = "\n"
    THEN LineStartsFrom(t, i + 2, IF i + 1 < Len(t) THEN Append(acc, i + 1) ELSE acc)
    ELSE IF t[i] \in {"\n", "\r"}
    THEN LineStartsFrom(t, i + 1, IF i < Len(t) THEN Append(acc, i) ELSE acc)
    ELSE LineStartsFrom(t, i + 1, acc)

LineStarts(t) == IF t = <<>> THEN <<>> ELSE LineStartsFrom(t, 1, <<0>>)

\* C22: for a span with 0 <= start < end <= len(text), compute_line_position
\* returns a line_number from 1 to the number of lines, left = start minus the
\* offset of that line's first character, 0 <= left <= length of the line,
\* right = left + (end - start), and never (-1, -1, -1).
C22_LinePosition ==
    pc = "positioned" =>
        LET lines == splitlines(text)
            starts == LineStarts(text)
        IN  /\ Len(result) = 1
            /\ \A k \in 1..Len(result) :
                   LET r == result[k]
                   IN  /\ 1 <= r.line_number /\ r.line_number <= Len(lines)
                       /\ r.left = r.start - starts[r.line_number]
                       /\ 0 <= r.left /\ r.left <= Len(lines[r.line_number])
                       /\ r.right = r.left + (r.end - r.start)

\* C23: whatever is typed in the review, the list collect_user_feedback
\* returns has every entry within 0 <= start < end <= len(text) and no two
\* entries with the same label and intersecting ranges.
C23_ReviewOutputReconciled ==
    pc = "reviewed" =>
        /\ \A k \in 1..Len(result) : within(text, result[k].start, result[k].end)
        /\ \A i, j \in 1..Len(result) :
               i # j => ~(result[i].label = result[j].label /\ Intersects(result[i], result[j]))

C23_Witness ==
    LET final == ReviewFrom(text, ReviewClean, cmds, 1, <<>>)
    IN
        /\ pc = "reviewed"
        /\ \E i, j \in 1..Len(final) :
               i # j /\ final[i].label = final[j].label /\ Intersects(final[i], final[j])
        /\ Len(result) = 1

\* the whole value v is one SSN_LIKE match
SsnLike(v) == Len(v) > 0 /\ SSN_LIKE(v, 0) = Len(v)

\* C24: in an obfuscated row, an SSN-like identifier held as the whole value
\* of an identifier field and the same identifier inside another string field
\* are both replaced by deterministic_numeric_like(v, 4), and the text around
\* the inline match is left untouched
C24_IdentifierConsistent ==
    (pc = "obfuscated" /\ SsnLike(value)) =>
        LET d == deterministic_numeric_like(value, AccountPreserveLast, key)
        IN /\ pseudo = d
           /\ \E pre \in Prefixes, suf \in Suffixes :
                  other = pre \o value \o suf /\ pseudo_other = pre \o d \o suf

\* no two tuples of the cleaned list intersect or have the same (start, end)
CleanDisjoint ==
    \A j, k \in 1..Len(result) :
        j # k => /\ ~Intersects(result[j], result[k])
                 /\ ~(result[j].start = result[k].start /\ result[j].end = result[k].end)

SameRange(a, b) == a.start = b.start /\ a.end = b.end

\* input tuple i is the one appended to the cleaned list: it unpacks, it is
\* in the result, and no earlier tuple gives the same cleaned tuple
KeptAt(i) ==
    /\ Unpacks(entities[i])
    /\ \E k \in 1..Len(result) : result[k] = Cleaned(entities[i])
    /\ \A h \in 1..(i - 1) :
           ~(Unpacks(entities[h]) /\ Cleaned(entities[h]) = Cleaned(entities[i]))

\* C25 as stated: the cleaned list has no two intersecting or equal ranges,
\* and of two intersecting tuples the earlier in input order is the one kept:
\* a kept tuple intersects no earlier tuple of the input
C25_FirstOfIntersectingKept ==
    pc = "cleaned" =>
        /\ CleanDisjoint
        /\ \A j \in 1..Len(entities) : KeptAt(j) =>
               \A i \in 1..(j - 1) :
                   Unpacks(entities[i]) => ~Intersects(entities[i], entities[j])

\* C25 amended: the cleaned list has no two intersecting or equal ranges,
\* irrespective of label, and a tuple is kept exactly when no tuple kept
\* before it in input order intersects it or has the same (start, end)
C25_FirstKeptWins ==
    pc = "cleaned" =>
        /\ CleanDisjoint
        /\ \A j \in 1..Len(entities) : Unpacks(entities[j]) =>
               (KeptAt(j) <=>
                   ~\E i \in 1..(j - 1) :
                        /\ KeptAt(i)
                        /\ (Intersects(entities[i], entities[j])
                            \/ SameRange(entities[i], entities[j])))

\* a tuple is kept although an earlier tuple, itself dropped, intersects it;
\* the two differ in label
C25_Witness ==
    /\ pc = "cleaned"
    /\ \E i, j \in 1..Len(entities) :
           /\ i < j /\ Unpacks(entities[i]) /\ ~KeptAt(i) /\ KeptAt(j)
           /\ Intersects(entities[i], entities[j])
           /\ entities[i].label # entities[j].label

\* the (start, end, label) triples of a list of spans
TriplesOf(seq) == {<<seq[k].start, seq[k].end, seq[k].label>> : k \in 1..Len(seq)}

\* the rearrangements of the positions 1..n
Rearrangements(n) == {f \in [1..n -> 1..n] : \A i, j \in 1..n : f[i] = f[j] => i = j}

\* C26: the triples dedupe_overlaps returns are the same for every
\* permutation of the list of valid candidates
C26_OrderIndependent ==
    pc = "reconciled" =>
        LET cl == Clean
        IN \A f \in Rearrangements(Len(cl)) :
               TriplesOf(dedupe_overlaps([i \in 1..Len(cl) |-> cl[f[i]]])) = TriplesOf(result)

\* two clashing candidates of different triples arrive against the sort order
C26_Witness ==
    LET cl == Clean
    IN /\ pc = "reconciled"
       /\ \E i, j \in 1..Len(cl) :
              /\ i < j /\ KeyLT(cl[j], cl[i])
              /\ Clash(cl[i], cl[j])
              /\ Width(cl[i]) = Width(cl[j])

\* candidates i and j have one label and intersecting ranges
Touches(cl, i, j) == cl[i].label = cl[j].label /\ Intersects(cl[i], cl[j])

RECURSIVE Chained(_, _)
\* the positions reached from S through chains of same-label candidates each
\* intersecting the next
Chained(cl, S) ==
    LET T == S \cup {j \in 1..Len(cl) : \E i \in S : Touches(cl, i, j)}
    IN IF T = S THEN S ELSE Chained(cl, T)

\* C27 as stated: every valid candidate that dedupe_overlaps drops intersects
\* a span of its label in the output
C27_DroppedTouchesSurvivor ==
    pc = "reconciled" =>
        LET cl == Clean
        IN \A i \in 1..Len(cl) : ~InResult(cl[i]) =>
               \E k \in 1..Len(result) :
                   result[k].label = cl[i].label /\ Intersects(result[k], cl[i])

\* C27 amended: every valid candidate that dedupe_overlaps drops is joined to
\* a span of the output by a chain of same-label candidates each intersecting
\* the next
C27_DroppedChainedToSurvivor ==
    pc = "reconciled" =>
        LET cl == Clean
        IN \A i \in 1..Len(cl) : ~InResult(cl[i]) =>
               \E j \in Chained(cl, {i}) : InResult(cl[j])

\* a dropped candidate touches no span of its label in the output
C27_Witness ==
    LET cl == Clean
    IN /\ pc = "reconciled"
       /\ \E i \in 1..Len(cl) :
              /\ ~InResult(cl[i])
              /\ ~\E k \in 1..Len(result) :
                      result[k].label = cl[i].label /\ Intersects(result[k], cl[i])
              /\ \E j \in Chained(cl, {i}) : InResult(cl[j])

\* every candidate is a valid (value, label, start, end) tuple whose label is
\* already canonical
ValidCanonical ==
    \A i \in 1..Len(entities) :
        /\ entities[i].shape = "record"
        /\ within(text, entities[i].start, entities[i].end)
        /\ sanitize_label(entities[i].label) = entities[i].label
        /\ pii_sanitize_label(entities[i].label) = entities[i].label

\* C28: on valid candidates with canonical labels _merge_and_dedupe and
\* dedupe_overlaps return the same set of (start, end, label) triples
C28_ImplementationsAgree ==
    (pc = "merged" /\ ValidCanonical) =>
        TriplesOf(result) = TriplesOf(dedupe_overlaps(NormalizeAll(text, entities)))

\* the value normalize_entity gives candidate c: the value supplied with it
\* unless that is missing or blank
ValueOf(c) ==
    IF c.value # None /\ Strip(c.value) # <<>> THEN c.value
    ELSE Slice(text, c.start, c.end)

\* C29 as stated: every span kept by reconciliation has value text[start:end]
C29_ValueIsSlice ==
    pc = "reconciled" =>
        \A k \in 1..Len(result) :
            result[k].value = Slice(text, result[k].start, result[k].end)

\* C29 amended: every span kept by reconciliation has the value supplied with
\* the first candidate of its (start, end, label) in input order, and
\* text[start:end] when that candidate supplied none or a blank one
C29_ValueSuppliedOrSlice ==
    pc = "reconciled" =>
        \A k \in 1..Len(result) :
            \E i \in 1..Len(entities) :
                /\ normalize_entity(text, entities[i]) # <<>>
                /\ SameSpan(result[k], normalize_entity(text, entities[i])[1])
                /\ \A h \in 1..(i - 1) :
                       normalize_entity(text, entities[h]) = <<>>
                       \/ ~SameSpan(result[k], normalize_entity(text, entities[h])[1])
                /\ result[k].value = ValueOf(entities[i])

\* a kept span carries a supplied value that is not its slice of the text,
\* and another kept span, supplied with a blank value, carries its slice
C29_Witness ==
    /\ pc = "reconciled"
    /\ \E k \in 1..Len(result) :
           result[k].value # Slice(text, result[k].start, result[k].end)
    /\ \E i \in 1..Len(entities) :
           /\ entities[i].value # None /\ Strip(entities[i].value) = <<>>
           /\ normalize_entity(text, entities[i]) # <<>>
           /\ \E k \in 1..Len(result) :
                  /\ SameSpan(result[k], normalize_entity(text, entities[i])[1])
                  /\ result[k].value = Slice(text, entities[i].start, entities[i].end)

\* the typed line is an edit with invalid offsets, a malformed edit or an
\* unrecognized command
Rejected(typed) ==
    LET cmd == Strip(typed)
        low == Lower(cmd)
        a == EditArgs(typed)
    IN /\ cmd # <<>>
       /\ low # <<"x">>
       /\ low # <<"s">>
       /\ ~StartsWith(low, <<"l", " ">>)
       /\ (StartsWith(low, <<"e", " ">>) =>
              (a = <<>> \/ ~(0 <= a[1] /\ a[1] < a[2] /\ a[2] <= Len(text))))

\* C30: a span whose typed line is an edit with invalid offsets, a malformed
\* edit or an unrecognized command is left out of the output exactly as if
\* it had been excluded: the output is that of the same review with x typed
\* for it, no span of the output comes from it, and the spans after it are
\* still processed
C30_RejectedIsExcluded ==
    pc = "reviewed" =>
        LET excluded == [i \in 1..Len(cmds) |->
                            IF Rejected(cmds[i]) THEN <<"x">> ELSE cmds[i]]
        IN /\ result = collect_user_feedback(text, entities, excluded)
           /\ \A i \in 1..Len(cmds) : Rejected(cmds[i]) => OutputOf(i) = <<>>

\* an edit with invalid offsets is typed for a span and a span presented
\* after it is in the output
C30_Witness ==
    /\ pc = "reviewed"
    /\ \E i, j \in 1..Len(cmds) :
           /\ i < j
           /\ Rejected(cmds[i]) /\ EditArgs(cmds[i]) # <<>>
           /\ OutputOf(j) # <<>>

====
